---- MODULE Spec2Model ----
(***************************************************************************)
(* Model of the recruitment-tag solver of FioBot's mrfz plugin             *)
(* (src/fio_bot/plugins/mrfz/recruit.py).                                  *)
(*                                                                         *)
(* Text is modelled as a sequence of Unicode code points, so that string   *)
(* equality, substring tests, strip() and Python's string ordering are     *)
(* computed as the code computes them.                                     *)
(***************************************************************************)
EXTENDS Integers, Sequences, FiniteSets, TLC

VARIABLES
    operators,     \* the dataset handed to the solver: list of {name, rarity, tags}
    user_tags,     \* the tag list of the current query
    results,       \* what find_recruit_combinations returned for it
    valid_tags,    \* the valid-tag list handed to the normalizer
    raw_tags,      \* the raw tokens handed to the normalizer
    normalized,    \* what normalize_tags returned for them
    renormalized,  \* what normalize_tags returned for its own output
    text,          \* the text handed to smart_split_tags
    parts,         \* the pieces of the text not yet processed, the current one first
    remaining,     \* the unscanned rest of the current piece
    found_any,     \* whether a keyword was matched in the current piece
    split_result,  \* the token list smart_split_tags is building
    ocr_lines,     \* the text lines the OCR service returned
    found_tags,    \* what extract_tags_from_ocr returned for them
    char_table,    \* character_table.json: the records, in file order
    gacha_table,   \* gacha_table.json: recruitDetail and the tagName column
    recruit_pool,  \* the name set parse_recruit_pool returned
    pc,            \* "idle" before the first call, then the last operation applied
    image_url,     \* whether the message of the recruit command carries an image
    formatted,     \* what format_results returned
    cached_operators,   \* _cached_operators: None, or the operators of a build
    cached_valid_tags,  \* _cached_valid_tags: None, or the valid tags of a build
    char_file,     \* character_table.json on disk
    gacha_file,    \* gacha_table.json on disk
    recruits,      \* the running handle_recruit coroutines
    updates        \* the running handle_update coroutines

solverVars == <<operators, user_tags, results>>
normalizerVars == <<valid_tags, raw_tags, normalized, renormalized>>
splitterVars == <<text, parts, remaining, found_any, split_result>>
ocrVars == <<ocr_lines, found_tags>>
dataVars == <<char_table, gacha_table, recruit_pool>>
commandVars == <<image_url>>
renderVars == <<formatted>>
cacheVars == <<cached_operators, cached_valid_tags, char_file, gacha_file, recruits, updates>>
pluginVars == <<commandVars, renderVars, cacheVars>>
vars == <<solverVars, normalizerVars, splitterVars, ocrVars, dataVars, pc, pluginVars>>

(***************************************************************************)
(* Bounds of the model                                                     *)
(***************************************************************************)
MaxOps == 2
MaxUserTags == 4
MaxValidTags == 3
MaxRawTags == 2
MaxChunks == 3
MaxOcrLines == 2
MaxRecords == 2
MaxBlocks == 2
MaxPieces == 6       \* space-separated pieces of a command text
MaxResults == 2      \* results handed to format_results
MaxRecruits == 2     \* recruit commands in flight
MaxUpdates == 1      \* update commands in flight

(***************************************************************************)
(* Program constants                                                       *)
(***************************************************************************)
\* "gao ji zi shen gan yuan", the literal tested by the 6-star guard
TOP_VETERAN == <<39640, 32423, 36164, 28145, 24178, 21592>>
\* default value of the max_combo_size parameter
max_combo_size == 3

\* the alias table, as pairs <<key, target>>
TAG_ALIASES ==
    {
      << <<39640, 36164>>, <<39640, 32423, 36164, 28145, 24178, 21592>> >>,  \* 高资 -> 高级资深干员
      << <<39640, 23039>>, <<39640, 32423, 36164, 28145, 24178, 21592>> >>,  \* 高姿 -> 高级资深干员
      << <<39640, 32423>>, <<39640, 32423, 36164, 28145, 24178, 21592>> >>,  \* 高级 -> 高级资深干员
      << <<39640, 32423, 36164, 28145>>, <<39640, 32423, 36164, 28145, 24178, 21592>> >>,  \* 高级资深 -> 高级资深干员
      << <<36164, 28145>>, <<36164, 28145, 24178, 21592>> >>,  \* 资深 -> 资深干员
      << <<36164, 24178>>, <<36164, 28145, 24178, 21592>> >>,  \* 资干 -> 资深干员
      << <<26426, 26800>>, <<25903, 25588, 26426, 26800>> >>,  \* 机械 -> 支援机械
      << <<25903, 26426>>, <<25903, 25588, 26426, 26800>> >>,  \* 支机 -> 支援机械
      << <<36817, 25112>>, <<36817, 25112, 20301>> >>,  \* 近战 -> 近战位
      << <<36828, 31243>>, <<36828, 31243, 20301>> >>,  \* 远程 -> 远程位
      << <<36817, 21355>>, <<36817, 21355, 24178, 21592>> >>,  \* 近卫 -> 近卫干员
      << <<29401, 20987>>, <<29401, 20987, 24178, 21592>> >>,  \* 狙击 -> 狙击干员
      << <<37325, 35013>>, <<37325, 35013, 24178, 21592>> >>,  \* 重装 -> 重装干员
      << <<21307, 30103>>, <<21307, 30103, 24178, 21592>> >>,  \* 医疗 -> 医疗干员
      << <<36741, 21161>>, <<36741, 21161, 24178, 21592>> >>,  \* 辅助 -> 辅助干员
      << <<26415, 24072>>, <<26415, 24072, 24178, 21592>> >>,  \* 术师 -> 术师干员
      << <<26415, 22763>>, <<26415, 24072, 24178, 21592>> >>,  \* 术士 -> 术师干员
      << <<29305, 31181>>, <<29305, 31181, 24178, 21592>> >>,  \* 特种 -> 特种干员
      << <<20808, 38155>>, <<20808, 38155, 24178, 21592>> >>,  \* 先锋 -> 先锋干员
      << <<22238, 36153>>, <<36153, 29992, 22238, 22797>> >>,  \* 回费 -> 费用回复
      << <<36153, 22238>>, <<36153, 29992, 22238, 22797>> >>,  \* 费回 -> 费用回复
      << <<24674, 22797>>, <<36153, 29992, 22238, 22797>> >>,  \* 恢复 -> 费用回复
      << <<24555, 27963>>, <<24555, 36895, 22797, 27963>> >>,  \* 快活 -> 快速复活
      << <<22797, 27963>>, <<24555, 36895, 22797, 27963>> >>,  \* 复活 -> 快速复活
      << <<24555, 36895>>, <<24555, 36895, 22797, 27963>> >>,  \* 快速 -> 快速复活
      << <<39640, 32423, 36164, 28145, 24178, 21592>>, <<39640, 32423, 36164, 28145, 24178, 21592>> >>,  \* 高级资深干员 -> 高级资深干员
      << <<36164, 28145, 24178, 21592>>, <<36164, 28145, 24178, 21592>> >>,  \* 资深干员 -> 资深干员
      << <<25903, 25588, 26426, 26800>>, <<25903, 25588, 26426, 26800>> >>,  \* 支援机械 -> 支援机械
      << <<36817, 25112, 20301>>, <<36817, 25112, 20301>> >>,  \* 近战位 -> 近战位
      << <<36828, 31243, 20301>>, <<36828, 31243, 20301>> >>,  \* 远程位 -> 远程位
      << <<36817, 21355, 24178, 21592>>, <<36817, 21355, 24178, 21592>> >>,  \* 近卫干员 -> 近卫干员
      << <<29401, 20987, 24178, 21592>>, <<29401, 20987, 24178, 21592>> >>,  \* 狙击干员 -> 狙击干员
      << <<37325, 35013, 24178, 21592>>, <<37325, 35013, 24178, 21592>> >>,  \* 重装干员 -> 重装干员
      << <<21307, 30103, 24178, 21592>>, <<21307, 30103, 24178, 21592>> >>,  \* 医疗干员 -> 医疗干员
      << <<36741, 21161, 24178, 21592>>, <<36741, 21161, 24178, 21592>> >>,  \* 辅助干员 -> 辅助干员
      << <<26415, 24072, 24178, 21592>>, <<26415, 24072, 24178, 21592>> >>,  \* 术师干员 -> 术师干员
      << <<29305, 31181, 24178, 21592>>, <<29305, 31181, 24178, 21592>> >>,  \* 特种干员 -> 特种干员
      << <<20808, 38155, 24178, 21592>>, <<20808, 38155, 24178, 21592>> >>,  \* 先锋干员 -> 先锋干员
      << <<25511, 22330>>, <<25511, 22330>> >>,  \* 控场 -> 控场
      << <<29190, 21457>>, <<29190, 21457>> >>,  \* 爆发 -> 爆发
      << <<27835, 30103>>, <<27835, 30103>> >>,  \* 治疗 -> 治疗
      << <<25903, 25588>>, <<25903, 25588>> >>,  \* 支援 -> 支援
      << <<36153, 29992, 22238, 22797>>, <<36153, 29992, 22238, 22797>> >>,  \* 费用回复 -> 费用回复
      << <<36755, 20986>>, <<36755, 20986>> >>,  \* 输出 -> 输出
      << <<29983, 23384>>, <<29983, 23384>> >>,  \* 生存 -> 生存
      << <<32676, 25915>>, <<32676, 25915>> >>,  \* 群攻 -> 群攻
      << <<38450, 25252>>, <<38450, 25252>> >>,  \* 防护 -> 防护
      << <<20943, 36895>>, <<20943, 36895>> >>,  \* 减速 -> 减速
      << <<21066, 24369>>, <<21066, 24369>> >>,  \* 削弱 -> 削弱
      << <<24555, 36895, 22797, 27963>>, <<24555, 36895, 22797, 27963>> >>,  \* 快速复活 -> 快速复活
      << <<20301, 31227>>, <<20301, 31227>> >>,  \* 位移 -> 位移
      << <<21484, 21796>>, <<21484, 21796>> >>,  \* 召唤 -> 召唤
      << <<20803, 32032>>, <<20803, 32032>> >>,  \* 元素 -> 元素
      << <<26032, 25163>>, <<26032, 25163>> >>  \* 新手 -> 新手
    }

(***************************************************************************)
(* Python built-ins used by the code                                       *)
(***************************************************************************)
Range(s) == {s[i] : i \in DOMAIN s}

Min2(a, b) == IF a <= b THEN a ELSE b

\* str.__lt__: lexicographic order by code point, a proper prefix is smaller
RECURSIVE StrLess(_, _)
StrLess(a, b) ==
    IF b = <<>> THEN FALSE
    ELSE IF a = <<>> THEN TRUE
    ELSE IF a[1] # b[1] THEN a[1] < b[1]
    ELSE StrLess(Tail(a), Tail(b))

\* a variant that emits each tuple back to front
RECURSIVE combinations_Reversed(_, _)
combinations_Reversed(pool, r) ==
    IF r = 0 THEN << <<>> >>
    ELSE IF Len(pool) < r THEN <<>>
    ELSE LET withHead == combinations_Reversed(Tail(pool), r - 1)
             without  == combinations_Reversed(Tail(pool), r)
         IN  [i \in DOMAIN withHead |-> withHead[i] \o <<pool[1]>>] \o without

\* itertools.combinations(pool, r): the r-length subsequences of pool, by
\* position, in lexicographic order of their index tuples
RECURSIVE combinations(_, _)
combinations(pool, r) ==
    IF r = 0 THEN << <<>> >>
    ELSE IF Len(pool) < r THEN <<>>
    ELSE LET withHead == combinations(Tail(pool), r - 1)
             without  == combinations(Tail(pool), r)
         IN  [i \in DOMAIN withHead |-> <<pool[1]>> \o withHead[i]] \o without

\* a variant that takes the first element's rarity for the minimum
MinRarity_First(ms) == ms[1].rarity

\* min(...) / max(...) over the rarities of a non-empty list
RECURSIVE MinRarity(_)
MinRarity(ms) ==
    IF Len(ms) = 1 THEN ms[1].rarity
    ELSE LET rest == MinRarity(Tail(ms))
         IN  IF ms[1].rarity <= rest THEN ms[1].rarity ELSE rest

RECURSIVE MaxRarity(_)
MaxRarity(ms) ==
    IF Len(ms) = 1 THEN ms[1].rarity
    ELSE LET rest == MaxRarity(Tail(ms))
         IN  IF ms[1].rarity >= rest THEN ms[1].rarity ELSE rest

(***************************************************************************)
(* find_recruit_combinations                                               *)
(***************************************************************************)
\* variants of the guards: without the 6-star guard, and with a 6-star guard
\* that no tag lifts
OperatorMatches_NoGate(op, combo_set) == combo_set \subseteq op.tags

OperatorMatches_NeverFive(op, combo_set) ==
    /\ combo_set \subseteq op.tags
    /\ op.rarity # 5

\* the two guards of the inner loop: the operator's tags cover the combo,
\* and a rarity-5 operator needs the top-veteran tag in the combo itself
OperatorMatches(op, combo_set) ==
    /\ combo_set \subseteq op.tags
    /\ ~(op.rarity = 5 /\ TOP_VETERAN \notin combo_set)

\* matched, as built by the loop over operators (dataset order)
MatchedOperators(combo, ops) ==
    LET combo_set == Range(combo)
        kept == SelectSeq(ops, LAMBDA op : OperatorMatches(op, combo_set))
    IN  [i \in DOMAIN kept |-> [name |-> kept[i].name, rarity |-> kept[i].rarity]]

\* a variant of the key without the name
OperatorKeyLess_NameIgnored(x, y) == -x.rarity < -y.rarity

\* key=lambda x: (-x["rarity"], x["name"]), compared as Python compares tuples
OperatorKeyLess(x, y) ==
    \/ -x.rarity < -y.rarity
    \/ x.rarity = y.rarity /\ StrLess(x.name, y.name)

\* list.sort is stable: an element goes after every element not greater than it
RECURSIVE InsertOperator(_, _)
InsertOperator(x, sorted) ==
    IF sorted = <<>> THEN <<x>>
    ELSE IF OperatorKeyLess(x, sorted[1]) THEN <<x>> \o sorted
    ELSE <<sorted[1]>> \o InsertOperator(x, Tail(sorted))

RECURSIVE SortOperators(_)
SortOperators(ms) ==
    IF ms = <<>> THEN <<>>
    ELSE InsertOperator(ms[Len(ms)], SortOperators(SubSeq(ms, 1, Len(ms) - 1)))

\* variants of the value filter: one that skips only rarity 1, and one without
\* the max_rarity test of the 1-star case
ValueFilterDrops_OnlyOne(min_rarity, max_rarity) ==
    \/ min_rarity = 1
    \/ min_rarity = 0 /\ max_rarity > 0

ValueFilterDrops_NoMixedCheck(min_rarity, max_rarity) == min_rarity \in {1, 2}

\* the value filter: TRUE when the combo is dropped
ValueFilterDrops(min_rarity, max_rarity) ==
    \/ min_rarity \in {1, 2}
    \/ min_rarity = 0 /\ max_rarity > 0

\* one iteration of the loop over combos: the results it appends (none or one)
ComboResult(combo, ops) ==
    LET matched == MatchedOperators(combo, ops)
    IN  IF matched = <<>> THEN <<>>
        ELSE LET min_rarity == MinRarity(matched)
                 max_rarity == MaxRarity(matched)
             IN  IF ValueFilterDrops(min_rarity, max_rarity) THEN <<>>
                 ELSE LET narrowed ==
                              IF min_rarity = 0
                              THEN SelectSeq(matched, LAMBDA m : m.rarity = 0)
                              ELSE matched
                      IN  << [tags |-> combo,
                              operators |-> SortOperators(narrowed),
                              min_rarity |-> min_rarity] >>

RECURSIVE CombosResults(_, _)
CombosResults(combos, ops) ==
    IF combos = <<>> THEN <<>>
    ELSE ComboResult(combos[1], ops) \o CombosResults(Tail(combos), ops)

\* a variant without the ceiling on the combination size
MaxSize_NoCeiling(tags, mcs) == Len(tags)

\* the loop over size in range(1, min(max_combo_size, len(user_tags)) + 1)
MaxSize(tags, mcs) == Min2(mcs, Len(tags))

RECURSIVE UnsortedResults(_, _, _, _)
UnsortedResults(tags, ops, size, last) ==
    IF size > last THEN <<>>
    ELSE CombosResults(combinations(tags, size), ops)
             \o UnsortedResults(tags, ops, size + 1, last)

\* a variant of the key without the negation of min_rarity
ResultKeyLess_Ascending(x, y) ==
    \/ x.min_rarity < y.min_rarity
    \/ x.min_rarity = y.min_rarity /\ Len(x.tags) < Len(y.tags)

\* key=lambda x: (-x["min_rarity"], len(x["tags"]))
ResultKeyLess(x, y) ==
    \/ -x.min_rarity < -y.min_rarity
    \/ x.min_rarity = y.min_rarity /\ Len(x.tags) < Len(y.tags)

RECURSIVE InsertResult(_, _)
InsertResult(x, sorted) ==
    IF sorted = <<>> THEN <<x>>
    ELSE IF ResultKeyLess(x, sorted[1]) THEN <<x>> \o sorted
    ELSE <<sorted[1]>> \o InsertResult(x, Tail(sorted))

RECURSIVE SortResults(_)
SortResults(rs) ==
    IF rs = <<>> THEN <<>>
    ELSE InsertResult(rs[Len(rs)], SortResults(SubSeq(rs, 1, Len(rs) - 1)))

find_recruit_combinations(tags, ops, mcs) ==
    SortResults(UnsortedResults(tags, ops, 1, MaxSize(tags, mcs)))

(***************************************************************************)
(* normalize_tags                                                          *)
(***************************************************************************)
\* str.isspace, the characters str.strip() removes
IsSpace(c) ==
    c \in {9, 10, 11, 12, 13, 28, 29, 30, 31, 32, 133, 160, 5760,
           8192, 8193, 8194, 8195, 8196, 8197, 8198, 8199, 8200, 8201, 8202,
           8232, 8233, 8239, 8287, 12288}

RECURSIVE lstrip(_)
lstrip(s) == IF s # <<>> /\ IsSpace(s[1]) THEN lstrip(Tail(s)) ELSE s

RECURSIVE rstrip(_)
rstrip(s) ==
    IF s # <<>> /\ IsSpace(s[Len(s)]) THEN rstrip(SubSeq(s, 1, Len(s) - 1)) ELSE s

strip(s) == rstrip(lstrip(s))

\* `needle in hay` on strings
Contains(hay, needle) ==
    \E i \in 0 .. (Len(hay) - Len(needle)) :
        SubSeq(hay, i + 1, i + Len(needle)) = needle

\* `x in lst` on lists
InList(x, lst) == \E i \in DOMAIN lst : lst[i] = x

\* a variant that appends without the membership test
AppendNew_NoDedup(result, t) == Append(result, t)

\* if t not in result: result.append(t)
AppendNew(result, t) == IF InList(t, result) THEN result ELSE Append(result, t)

\* TAG_ALIASES.get(raw): the set holding the target, empty for None
AliasTargets(raw) == {p[2] : p \in {q \in TAG_ALIASES : q[1] = raw}}

\* the loop over valid_tags: the first tag containing raw is taken, then break
RECURSIVE FuzzyMatch(_, _, _)
FuzzyMatch(raw, vts, result) ==
    IF vts = <<>> THEN result
    ELSE IF Contains(vts[1], raw) THEN AppendNew(result, vts[1])
    ELSE FuzzyMatch(raw, Tail(vts), result)

\* a variant of the loop body that tries the substring rule first
NormalizeOne_FuzzyFirst(token, vts, result) ==
    LET raw == strip(token)
        fuzzy == FuzzyMatch(raw, vts, <<>>)
    IN  IF raw = <<>> THEN result
        ELSE IF fuzzy # <<>> THEN AppendNew(result, fuzzy[1])
        ELSE IF raw \in Range(vts) THEN AppendNew(result, raw)
        ELSE IF \E m \in AliasTargets(raw) : m # <<>> /\ m \in Range(vts)
             THEN AppendNew(result, CHOOSE m \in AliasTargets(raw) : TRUE)
        ELSE result

\* a variant of the loop body that accepts an alias target without testing
\* that it is a valid tag
NormalizeOne_AliasUnchecked(token, vts, result) ==
    LET raw == strip(token)
    IN  IF raw = <<>> THEN result
        ELSE IF raw \in Range(vts) THEN AppendNew(result, raw)
        ELSE IF AliasTargets(raw) # {}
             THEN AppendNew(result, CHOOSE m \in AliasTargets(raw) : TRUE)
        ELSE FuzzyMatch(raw, vts, result)

\* one iteration of the loop over raw_tags
NormalizeOne(token, vts, result) ==
    LET raw == strip(token)
        valid_set == Range(vts)
    IN  IF raw = <<>> THEN result
        ELSE IF raw \in valid_set THEN AppendNew(result, raw)
        ELSE IF \E m \in AliasTargets(raw) : m # <<>> /\ m \in valid_set
             THEN AppendNew(result, CHOOSE m \in AliasTargets(raw) : TRUE)
        ELSE FuzzyMatch(raw, vts, result)

RECURSIVE NormalizeLoop(_, _, _)
NormalizeLoop(raws, vts, result) ==
    IF raws = <<>> THEN result
    ELSE NormalizeLoop(Tail(raws), vts, NormalizeOne(raws[1], vts, result))

normalize_tags(raws, vts) == NormalizeLoop(raws, vts, <<>>)

(***************************************************************************)
(* smart_split_tags                                                        *)
(***************************************************************************)
\* the character class [,，\s] of the separator pattern
IsSeparator(c) == c = 44 \/ c = 65292 \/ IsSpace(c)

\* re.split(r"[,，\s]+", s): the pieces between maximal runs of separators;
\* a separator run at either end leaves an empty piece there
RECURSIVE ReSplit(_, _, _)
ReSplit(s, cur, afterSep) ==
    IF s = <<>> THEN <<cur>>
    ELSE IF IsSeparator(s[1])
         THEN IF afterSep THEN ReSplit(Tail(s), <<>>, TRUE)
              ELSE <<cur>> \o ReSplit(Tail(s), <<>>, TRUE)
    ELSE ReSplit(Tail(s), Append(cur, s[1]), FALSE)

\* parts = [p.strip() for p in re.split(..., text.strip()) if p.strip()]
SplitParts(t) ==
    LET pieces == ReSplit(strip(t), <<>>, FALSE)
        kept == SelectSeq(pieces, LAMBDA p : strip(p) # <<>>)
    IN  [i \in DOMAIN kept |-> strip(kept[i])]

\* `part in TAG_ALIASES`
IsAliasKey(s) == \E p \in TAG_ALIASES : p[1] = s

\* set(list(TAG_ALIASES.keys()) + list(valid_tags))
Keywords(vts) == {p[1] : p \in TAG_ALIASES} \cup Range(vts)

\* remaining.startswith(kw)
StartsWith(s, kw) == Len(kw) <= Len(s) /\ SubSeq(s, 1, Len(kw)) = kw

\* remaining[n:]
Drop(s, n) == SubSeq(s, n + 1, Len(s))

\* a variant in which the keyword list is not sorted by length
FirstMatches_AnyPrefix(rest, vts) == {kw \in Keywords(vts) : StartsWith(rest, kw)}

\* a variant in which the keyword list is sorted by ascending length
FirstMatches_Shortest(rest, vts) ==
    {kw \in Keywords(vts) :
        /\ StartsWith(rest, kw)
        /\ \A k2 \in Keywords(vts) : StartsWith(rest, k2) => Len(kw) <= Len(k2)}

\* The for loop over all_keywords stops at the first keyword that is a prefix
\* of the rest.  all_keywords is a set sorted by descending length only: the
\* order among keywords of equal length is the iteration order of the set,
\* which differs from run to run.  The keywords that can come first among the
\* prefixes are those no other prefix is longer than.
FirstMatches(rest, vts) ==
    {kw \in Keywords(vts) :
        /\ StartsWith(rest, kw)
        /\ \A k2 \in Keywords(vts) : StartsWith(rest, k2) => Len(k2) <= Len(kw)}

\* a variant that appends the piece whether or not a keyword was found
AfterScan_Always(found, res, part) == Append(res, part)

\* if not found_any: result.append(part)
AfterScan(found, res, part) == IF found THEN res ELSE Append(res, part)

(***************************************************************************)
(* extract_tags_from_ocr                                                   *)
(***************************************************************************)
\* the loop over valid_tags: every tag contained in the line, no break
RECURSIVE ContainedTags(_, _, _)
ContainedTags(line, vts, found) ==
    IF vts = <<>> THEN found
    ELSE ContainedTags(line, Tail(vts),
                       IF Contains(line, vts[1]) /\ ~InList(vts[1], found)
                       THEN Append(found, vts[1]) ELSE found)

\* a variant of the loop body in which an exact match does not end the
\* iteration
ExtractLine_NoContinue(ocr_line, vts, found) ==
    LET line == strip(ocr_line)
    IN  IF line = <<>> THEN found
        ELSE IF line \in Range(vts)
             THEN ContainedTags(line, vts, AppendNew(found, line))
        ELSE IF \E m \in AliasTargets(line) : m # <<>> /\ m \in Range(vts)
             THEN AppendNew(found, CHOOSE m \in AliasTargets(line) : TRUE)
        ELSE ContainedTags(line, vts, found)

\* one iteration of the loop over ocr_lines
ExtractLine(ocr_line, vts, found) ==
    LET line == strip(ocr_line)
        valid_set == Range(vts)
    IN  IF line = <<>> THEN found
        ELSE IF line \in valid_set THEN AppendNew(found, line)
        ELSE IF \E m \in AliasTargets(line) : m # <<>> /\ m \in valid_set
             THEN AppendNew(found, CHOOSE m \in AliasTargets(line) : TRUE)
        ELSE ContainedTags(line, vts, found)

RECURSIVE ExtractLoop(_, _, _)
ExtractLoop(lines, vts, found) ==
    IF lines = <<>> THEN found
    ELSE ExtractLoop(Tail(lines), vts, ExtractLine(lines[1], vts, found))

extract_tags_from_ocr(lines, vts) == ExtractLoop(lines, vts, <<>>)

(***************************************************************************)
(* game_data.py: parse_rarity, parse_recruit_pool, build_recruit_data      *)
(***************************************************************************)
\* the profession codes and their tags ("先锋干员", "近卫干员", "狙击干员",
\* "重装干员", "医疗干员", "辅助干员", "术师干员", "特种干员")
PROFESSION_MAP ==
    {
      << "PIONEER", <<20808, 38155, 24178, 21592>> >>,
      << "WARRIOR", <<36817, 21355, 24178, 21592>> >>,
      << "SNIPER", <<29401, 20987, 24178, 21592>> >>,
      << "TANK", <<37325, 35013, 24178, 21592>> >>,
      << "MEDIC", <<21307, 30103, 24178, 21592>> >>,
      << "SUPPORT", <<36741, 21161, 24178, 21592>> >>,
      << "CASTER", <<26415, 24072, 24178, 21592>> >>,
      << "SPECIAL", <<29305, 31181, 24178, 21592>> >>
    }

\* "TIER_1" .. "TIER_6" -> 0 .. 5
RARITY_MAP ==
    {
      << <<84, 73, 69, 82, 95, 49>>, 0 >>,
      << <<84, 73, 69, 82, 95, 50>>, 1 >>,
      << <<84, 73, 69, 82, 95, 51>>, 2 >>,
      << <<84, 73, 69, 82, 95, 52>>, 3 >>,
      << <<84, 73, 69, 82, 95, 53>>, 4 >>,
      << <<84, 73, 69, 82, 95, 54>>, 5 >>
    }

\* a JSON value of the rarity field: an integer, a string, or anything else
IntRaw(n) == [kind |-> "int", num |-> n, str |-> <<>>]
StrRaw(t) == [kind |-> "str", num |-> 0, str |-> t]
NullRaw == [kind |-> "null", num |-> 0, str |-> <<>>]

\* a record that has no "rarity" key at all
AbsentRaw == [kind |-> "absent", num |-> 0, str |-> <<>>]

\* char_data.get("rarity", 0): the value of the key, 0 when the key is absent
GetRarity(rec) == IF rec.rarity.kind = "absent" THEN IntRaw(0) ELSE rec.rarity

IsDigit(c) == c \in 48 .. 57

RECURSIVE DigitsValue(_, _)
DigitsValue(d, acc) ==
    IF d = <<>> THEN acc ELSE DigitsValue(Tail(d), 10 * acc + (d[1] - 48))

\* int(s) on a string of ASCII characters: surrounding whitespace, an optional
\* sign, one digit or more; anything else raises ValueError
IsIntLiteral(t) ==
    LET body == strip(t)
        digits == IF body # <<>> /\ body[1] \in {43, 45} THEN Tail(body) ELSE body
    IN  digits # <<>> /\ \A i \in DOMAIN digits : IsDigit(digits[i])

IntValue(t) ==
    LET body == strip(t)
    IN  IF body[1] = 45 THEN -DigitsValue(Tail(body), 0)
        ELSE IF body[1] = 43 THEN DigitsValue(Tail(body), 0)
        ELSE DigitsValue(body, 0)

parse_rarity(raw_rarity) ==
    IF raw_rarity.kind = "int" THEN raw_rarity.num
    ELSE IF raw_rarity.kind = "str"
         THEN IF \E p \in RARITY_MAP : p[1] = raw_rarity.str
              THEN (CHOOSE p \in RARITY_MAP : p[1] = raw_rarity.str)[2]
              ELSE IF IsIntLiteral(raw_rarity.str) THEN IntValue(raw_rarity.str)
              ELSE -1
    ELSE -1

\* [tag["tagName"] for tag in gacha_table.get("gachaTags", [])]
get_all_recruit_tags(g) == [i \in DOMAIN g.gachaTags |-> g.gachaTags[i].tagName]

\* recruit_detail.replace("\\n", "\n"): a backslash followed by "n" becomes a
\* line feed
RECURSIVE UnescapeNewlines(_)
UnescapeNewlines(t) ==
    IF t = <<>> THEN <<>>
    ELSE IF Len(t) >= 2 /\ t[1] = 92 /\ t[2] = 110
         THEN <<10>> \o UnescapeNewlines(Drop(t, 2))
    ELSE <<t[1]>> \o UnescapeNewlines(Tail(t))

\* .split("\n")
RECURSIVE SplitLines(_, _)
SplitLines(t, cur) ==
    IF t = <<>> THEN <<cur>>
    ELSE IF t[1] = 10 THEN <<cur>> \o SplitLines(Tail(t), <<>>)
    ELSE SplitLines(Tail(t), Append(cur, t[1]))

\* the position of the first ">" of t, 0 when there is none
RECURSIVE FirstClose(_, _)
FirstClose(t, i) ==
    IF i > Len(t) THEN 0 ELSE IF t[i] = 62 THEN i ELSE FirstClose(t, i + 1)

\* re.sub(r"<[^>]+>", "", line): from a "<", everything up to the next ">"
\* goes, when at least one character lies between them
RECURSIVE RemoveMarkup(_)
RemoveMarkup(t) ==
    IF t = <<>> THEN <<>>
    ELSE IF t[1] = 60 /\ FirstClose(t, 2) > 2
         THEN RemoveMarkup(Drop(t, FirstClose(t, 2)))
    ELSE <<t[1]>> \o RemoveMarkup(Tail(t))

\* line.replace("/", " ").replace("／", " ")
ReplaceSlashes(t) == [i \in DOMAIN t |-> IF t[i] \in {47, 65295} THEN 32 ELSE t[i]]

\* str.split(): the words between runs of whitespace
RECURSIVE Words(_, _)
Words(t, cur) ==
    IF t = <<>> THEN IF cur = <<>> THEN <<>> ELSE <<cur>>
    ELSE IF IsSpace(t[1])
         THEN IF cur = <<>> THEN Words(Tail(t), <<>>)
              ELSE <<cur>> \o Words(Tail(t), <<>>)
    ELSE Words(Tail(t), Append(cur, t[1]))

\* one iteration of the loop over the lines: the names it adds
LineNames(raw_line) ==
    LET line == strip(raw_line)
    IN  IF line = <<>> \/ line[1] = 9733 \/ line[1] = 60 THEN {}
        ELSE {strip(w) : w \in Range(Words(ReplaceSlashes(RemoveMarkup(line)), <<>>))}
                 \ {<<>>, <<45>>}

parse_recruit_pool(g) ==
    UNION {LineNames(l) :
              l \in Range(SplitLines(UnescapeNewlines(g.recruitDetail), <<>>))}

\* variant: rarity 5 is given the tag of rarity 4
DerivedTags_NoTopVeteran(rec, rarity) ==
    {p[2] : p \in {q \in PROFESSION_MAP : q[1] = rec.profession}}
      \cup (IF rec.position = "MELEE" THEN {<<36817, 25112, 20301>>}
            ELSE IF rec.position = "RANGED" THEN {<<36828, 31243, 20301>>}
            ELSE {})
      \cup (IF rarity = 0 THEN {<<25903, 25588, 26426, 26800>>}
            ELSE IF rarity >= 4 THEN {<<36164, 28145, 24178, 21592>>}
            ELSE {})

\* the tags added for the profession, the position and the rarity
DerivedTags(rec, rarity) ==
    {p[2] : p \in {q \in PROFESSION_MAP : q[1] = rec.profession}}
      \cup (IF rec.position = "MELEE" THEN {<<36817, 25112, 20301>>}
            ELSE IF rec.position = "RANGED" THEN {<<36828, 31243, 20301>>}
            ELSE {})
      \cup (IF rarity = 0 THEN {<<25903, 25588, 26426, 26800>>}
            ELSE IF rarity = 4 THEN {<<36164, 28145, 24178, 21592>>}
            ELSE IF rarity = 5 THEN {TOP_VETERAN}
            ELSE {})

\* one iteration of the loop over char_table: the operators it appends
BuildOne(rec, pool) ==
    IF ~rec.dict THEN <<>>
    ELSE IF rec.name = <<>> \/ rec.name \notin pool THEN <<>>
    ELSE LET rarity == parse_rarity(GetRarity(rec))
         IN  IF rarity < 0 THEN <<>>
             ELSE << [name |-> rec.name,
                      rarity |-> rarity,
                      tags |-> Range(rec.tagList) \cup DerivedTags(rec, rarity)] >>

RECURSIVE BuildLoop(_, _)
BuildLoop(table, pool) ==
    IF table = <<>> THEN <<>>
    ELSE BuildOne(table[1], pool) \o BuildLoop(Tail(table), pool)

(***************************************************************************)
(* Inputs of the solver                                                    *)
(***************************************************************************)
\* "输出", "生存", "群攻": three ordinary recruit tags
TagDps      == <<36755, 20986>>
TagSurvival == <<29983, 23384>>
TagAoe      == <<32676, 25915>>
Tags == {TagDps, TagSurvival, TagAoe, TOP_VETERAN}

\* operator names "A" and "B"
NameA == <<65>>
NameB == <<66>>
Names == {NameA, NameB}
Rarities == 0 .. 5

\* an operator carries two tags or more (build_recruit_data adds a profession
\* and a position tag to the declared ones)
OperatorTagSets == {ts \in SUBSET Tags : Cardinality(ts) > 1}

Operator == [name : Names, rarity : Rarities, tags : OperatorTagSets]

SeqsUpTo(S, n) == UNION {[1 .. k -> S] : k \in 0 .. n}

Datasets == SeqsUpTo(Operator, MaxOps)

IsDuplicateFree(s) == \A i, j \in DOMAIN s : i # j => s[i] # s[j]

\* The ordinary tags are interchangeable for the solver (it only compares tags
\* with each other and with TOP_VETERAN), and Datasets is closed under renaming
\* them: a query names them in the order TagDps, TagSurvival, TagAoe, with the
\* top-veteran tag at any position.
OrdinaryInOrder(s) ==
    LET ord == SelectSeq(s, LAMBDA t : t # TOP_VETERAN)
    IN  ord = SubSeq(<<TagDps, TagSurvival, TagAoe>>, 1, Len(ord))

UserTagLists ==
    {s \in SeqsUpTo(Tags, MaxUserTags) : IsDuplicateFree(s) /\ OrdinaryInOrder(s)}

(***************************************************************************)
(* The solver as a state machine: a dataset is in place, a query arrives   *)
(***************************************************************************)
NormalizerIdle ==
    /\ valid_tags = <<>>
    /\ raw_tags = <<>>
    /\ normalized = <<>>
    /\ renormalized = <<>>

SplitterIdle ==
    /\ text = <<>>
    /\ parts = <<>>
    /\ remaining = <<>>
    /\ found_any = FALSE
    /\ split_result = <<>>

OcrIdle ==
    /\ ocr_lines = <<>>
    /\ found_tags = <<>>

DataIdle ==
    /\ char_table = <<>>
    /\ gacha_table = [recruitDetail |-> <<>>, gachaTags |-> <<>>]
    /\ recruit_pool = {}

\* The coroutines: each one is a command being handled.  Its number also
\* names the download_game_data call and the build_recruit_data call it makes
\* (a handler makes at most one of each); 0 names what an earlier run of the
\* process left on disk.
Recruits == 1 .. MaxRecruits
Updates == (MaxRecruits + 1) .. (MaxRecruits + MaxUpdates)

\* None in a cache field
NoBuild == [by |-> 0, char |-> 0, gacha |-> 0]

\* a data file: whether it exists, the download call that wrote it, and
\* whether json.load accepts its content
AbsentFile == [exists |-> FALSE, call |-> 0, ok |-> TRUE]
EarlierFile == [exists |-> TRUE, call |-> 0, ok |-> TRUE]

\* a handle_recruit coroutine: where it is suspended, the kind of command,
\* the cache _ensure_data found, and the cache fields read for the query
IdleRecruit ==
    [pc |-> "idle", mode |-> "text", ensured |-> NoBuild,
     used_tags |-> NoBuild, used_ops |-> NoBuild]

IdleUpdate == [pc |-> "idle"]

CommandIdle == image_url = FALSE

RenderIdle == formatted = <<>>

CacheIdle ==
    /\ cached_operators = NoBuild
    /\ cached_valid_tags = NoBuild
    /\ char_file = AbsentFile
    /\ gacha_file = AbsentFile
    /\ recruits = [r \in Recruits |-> IdleRecruit]
    /\ updates = [u \in Updates |-> IdleUpdate]

PluginIdle == CommandIdle /\ RenderIdle /\ CacheIdle

Init ==
    /\ operators \in Datasets
    /\ user_tags = <<>>
    /\ results = <<>>
    /\ NormalizerIdle
    /\ SplitterIdle
    /\ OcrIdle
    /\ DataIdle
    /\ PluginIdle
    /\ pc = "idle"

\* _do_recruit: find_recruit_combinations(tags, _cached_operators)
Solve ==
    /\ pc = "idle"
    /\ \E tags \in UserTagLists :
           /\ user_tags' = tags
           /\ results' = find_recruit_combinations(tags, operators, max_combo_size)
           /\ pc' = "solved"
           /\ UNCHANGED <<operators, normalizerVars, splitterVars, ocrVars, dataVars, pluginVars>>

Next == Solve

Spec == Init /\ [][Next]_vars

(***************************************************************************)
(* Inputs of the normalizer                                                *)
(***************************************************************************)
\* "资深干员", a tag that is a substring of the top-veteran tag
TagSenior == <<36164, 28145, 24178, 21592>>
\* " 输出": a tag name with a leading space, and the empty tag name
TagDpsPadded == <<32>> \o TagDps
TagEmpty == <<>>

ValidTagPool == {TOP_VETERAN, TagSenior, TagDps, TagDpsPadded, TagEmpty}

\* "高资" and "资深" (alias keys), "干员" and "输" (substrings of tags),
\* "控场" (an alias whose target is outside the pool)
RawTokenPool ==
    ValidTagPool \cup {<<39640, 36164>>, <<36164, 28145>>, <<24178, 21592>>,
                       <<36755>>, <<25511, 22330>>}

\* valid_tags is the tagName column of the pool table, in declaration order
ValidTagLists == {v \in SeqsUpTo(ValidTagPool, MaxValidTags) : IsDuplicateFree(v)}

RawTagLists == SeqsUpTo(RawTokenPool, MaxRawTags)

(***************************************************************************)
(* The normalizer as a state machine: normalize_tags is applied to the raw *)
(* tokens, then to its own output                                          *)
(***************************************************************************)
SolverIdle ==
    /\ operators = <<>>
    /\ user_tags = <<>>
    /\ results = <<>>

InitNormalize ==
    /\ valid_tags \in ValidTagLists
    /\ raw_tags \in RawTagLists
    /\ normalized = <<>>
    /\ renormalized = <<>>
    /\ SolverIdle
    /\ SplitterIdle
    /\ OcrIdle
    /\ DataIdle
    /\ PluginIdle
    /\ pc = "idle"

\* handle_recruit: tags = normalize_tags(raw_tags, _cached_valid_tags)
Normalize ==
    /\ pc = "idle"
    /\ normalized' = normalize_tags(raw_tags, valid_tags)
    /\ pc' = "normalized"
    /\ UNCHANGED <<valid_tags, raw_tags, renormalized, solverVars, splitterVars, ocrVars, dataVars, pluginVars>>

Renormalize ==
    /\ pc = "normalized"
    /\ renormalized' = normalize_tags(normalized, valid_tags)
    /\ pc' = "renormalized"
    /\ UNCHANGED <<valid_tags, raw_tags, normalized, solverVars, splitterVars, ocrVars, dataVars, pluginVars>>

NextNormalize == Normalize \/ Renormalize

SpecNormalize == InitNormalize /\ [][NextNormalize]_vars

(***************************************************************************)
(* Inputs of the splitter                                                  *)
(***************************************************************************)
\* "近卫干员"
TagGuard == <<36817, 21355, 24178, 21592>>

\* the texts are made of these chunks: "高资", "近卫", "输出", "高级", "资深"
\* (alias keys; "高级资深" is one too), "x", a full-width comma, a space and
\* "，x"
Chunks ==
    {<<39640, 36164>>, <<36817, 21355>>, TagDps, <<39640, 32423>>,
     <<36164, 28145>>, <<120>>, <<65292>>, <<32>>, <<65292, 120>>}

RECURSIVE Concat(_)
Concat(ss) == IF ss = <<>> THEN <<>> ELSE ss[1] \o Concat(Tail(ss))

Texts == {Concat(cs) : cs \in SeqsUpTo(Chunks, MaxChunks)}

\* the tagName column may hold any strings, an empty one included
SplitValidPool == {TagDps, TagGuard, TOP_VETERAN, TagEmpty}

SplitValidLists ==
    {v \in SeqsUpTo(SplitValidPool, MaxValidTags) : IsDuplicateFree(v)}

\* a terminating scan emits one token per character at most
MaxTokens == 2 * MaxChunks + 1

(***************************************************************************)
(* The text path of handle_recruit as a state machine: smart_split_tags    *)
(* runs one loop iteration at a time, then its tokens are normalized       *)
(***************************************************************************)
InitSplit ==
    /\ text \in Texts
    /\ valid_tags \in SplitValidLists
    /\ parts = <<>>
    /\ remaining = <<>>
    /\ found_any = FALSE
    /\ split_result = <<>>
    /\ raw_tags = <<>>
    /\ normalized = <<>>
    /\ renormalized = <<>>
    /\ SolverIdle
    /\ OcrIdle
    /\ DataIdle
    /\ PluginIdle
    /\ pc = "idle"

\* the statements before the loop over parts
SplitBegin ==
    /\ pc = "idle"
    /\ parts' = SplitParts(text)
    /\ split_result' = <<>>
    /\ pc' = "for_part"
    /\ UNCHANGED <<text, remaining, found_any, normalizerVars, solverVars, ocrVars, dataVars, pluginVars>>

\* one iteration of the loop over parts, up to the while loop
ForPart ==
    /\ pc = "for_part"
    /\ parts # <<>>
    /\ IF IsAliasKey(parts[1]) \/ InList(parts[1], valid_tags)
       THEN /\ split_result' = Append(split_result, parts[1])
            /\ parts' = Tail(parts)
            /\ UNCHANGED <<remaining, found_any, pc>>
       ELSE /\ remaining' = parts[1]
            /\ found_any' = FALSE
            /\ pc' = "while"
            /\ UNCHANGED <<parts, split_result>>
    /\ UNCHANGED <<text, normalizerVars, solverVars, ocrVars, dataVars, pluginVars>>

\* one iteration of `while remaining`
WhileStep ==
    /\ pc = "while"
    /\ remaining # <<>>
    /\ Len(split_result) < MaxTokens
    /\ IF FirstMatches(remaining, valid_tags) # {}
       THEN \E kw \in FirstMatches(remaining, valid_tags) :
                /\ split_result' = Append(split_result, kw)
                /\ remaining' = Drop(remaining, Len(kw))
                /\ found_any' = TRUE
       ELSE /\ remaining' = Tail(remaining)
            /\ UNCHANGED <<split_result, found_any>>
    /\ UNCHANGED <<text, parts, pc, normalizerVars, solverVars, ocrVars, dataVars, pluginVars>>

\* the while loop is left: the fallback, then the next piece
WhileEnd ==
    /\ pc = "while"
    /\ remaining = <<>>
    /\ split_result' = AfterScan(found_any, split_result, parts[1])
    /\ parts' = Tail(parts)
    /\ pc' = "for_part"
    /\ UNCHANGED <<text, remaining, found_any, normalizerVars, solverVars, ocrVars, dataVars, pluginVars>>

\* return result; handle_recruit binds it to raw_tags
SplitReturn ==
    /\ pc = "for_part"
    /\ parts = <<>>
    /\ raw_tags' = split_result
    /\ pc' = "split"
    /\ UNCHANGED <<valid_tags, normalized, renormalized, splitterVars, solverVars, ocrVars, dataVars, pluginVars>>

\* handle_recruit: no token or more than five end the request, otherwise
\* tags = normalize_tags(raw_tags, _cached_valid_tags)
NormalizeTokens ==
    /\ pc = "split"
    /\ IF raw_tags = <<>> \/ Len(raw_tags) > 5
       THEN pc' = "finished" /\ UNCHANGED normalized
       ELSE pc' = "normalized" /\ normalized' = normalize_tags(raw_tags, valid_tags)
    /\ UNCHANGED <<valid_tags, raw_tags, renormalized, splitterVars, solverVars, ocrVars, dataVars, pluginVars>>

NextSplit ==
    \/ SplitBegin
    \/ ForPart
    \/ WhileStep
    \/ WhileEnd
    \/ SplitReturn
    \/ NormalizeTokens

SpecSplit == InitSplit /\ [][NextSplit]_vars

(***************************************************************************)
(* The screenshot path of handle_recruit as a state machine                *)
(***************************************************************************)
\* lines of a recognized screenshot: a valid tag that contains another one,
\* "高资" and "资深" (alias keys), "资深干员输出" and "高级资深干员输出" (several
\* tags on one line), " 输出 ", a blank line and "xx"
OcrLinePool ==
    {TOP_VETERAN, <<39640, 36164>>, <<36164, 28145>>, TagSenior \o TagDps,
     TOP_VETERAN \o TagDps, <<32>> \o TagDps \o <<32>>, <<32>>, <<120, 120>>}

OcrLineLists == SeqsUpTo(OcrLinePool, MaxOcrLines)

InitOcr ==
    /\ ocr_lines \in OcrLineLists
    /\ valid_tags \in ValidTagLists
    /\ found_tags = <<>>
    /\ raw_tags = <<>>
    /\ normalized = <<>>
    /\ renormalized = <<>>
    /\ SolverIdle
    /\ SplitterIdle
    /\ DataIdle
    /\ PluginIdle
    /\ pc = "idle"

\* variant: the tag list is not cut
FirstFive_NoCut(tag_list) == tag_list

\* handle_recruit: if len(tags) > 5: tags = tags[:5]
FirstFive(tag_list) ==
    IF Len(tag_list) > 5 THEN SubSeq(tag_list, 1, 5) ELSE tag_list

\* handle_recruit: no line ends the request
NoOcrLines ==
    /\ pc = "idle"
    /\ ocr_lines = <<>>
    /\ pc' = "finished"
    /\ UNCHANGED <<solverVars, normalizerVars, splitterVars, ocrVars, dataVars, pluginVars>>

\* handle_recruit: tags = extract_tags_from_ocr(ocr_lines, _cached_valid_tags),
\* cut to five tags, handed to the solver unless empty
ExtractOcr ==
    /\ pc = "idle"
    /\ ocr_lines # <<>>
    /\ found_tags' = extract_tags_from_ocr(ocr_lines, valid_tags)
    /\ user_tags' = FirstFive(found_tags')
    /\ pc' = "extracted"
    /\ UNCHANGED <<operators, results, ocr_lines, normalizerVars, splitterVars,
                   dataVars, pluginVars>>

NextOcr == NoOcrLines \/ ExtractOcr

SpecOcr == InitOcr /\ [][NextOcr]_vars

(***************************************************************************)
(* handle_recruit from the command to the solver call, on both paths       *)
(***************************************************************************)
\* command texts: up to MaxPieces pieces joined by a space, each piece a
\* valid tag ("输出"), an alias key ("高资") or an unknown word ("x")
CmdPieces == {TagDps, <<39640, 36164>>, <<120>>}

RECURSIVE JoinSpace(_)
JoinSpace(ss) ==
    IF Len(ss) = 1 THEN ss[1] ELSE ss[1] \o <<32>> \o JoinSpace(Tail(ss))

CmdTexts == {JoinSpace(ps) : ps \in SeqsUpTo(CmdPieces, MaxPieces) \ {<<>>}}

\* the cached valid tags: three tags, or six of which one line shows them all
SixTags == <<TagDps, TagGuard, TOP_VETERAN, TagSenior, TagSurvival, TagAoe>>
SixTagLine == TagDps \o TagGuard \o TOP_VETERAN \o TagSurvival \o TagAoe
CmdValidLists == {<<TagDps, TagGuard, TOP_VETERAN>>, SixTags}

CmdOcrLineLists == SeqsUpTo({SixTagLine, TagDps, <<120, 120>>}, MaxOcrLines)

CmdDatasets ==
    {<<>>, <<[name |-> NameA, rarity |-> 5, tags |-> {TOP_VETERAN, TagDps}],
             [name |-> NameB, rarity |-> 3, tags |-> {TagDps}]>>}

InitRecruit ==
    /\ \/ image_url = FALSE /\ text \in CmdTexts /\ ocr_lines = <<>>
       \/ image_url = TRUE /\ text = <<>> /\ ocr_lines \in CmdOcrLineLists
    /\ valid_tags \in CmdValidLists
    /\ operators \in CmdDatasets
    /\ user_tags = <<>>
    /\ results = <<>>
    /\ parts = <<>>
    /\ remaining = <<>>
    /\ found_any = FALSE
    /\ split_result = <<>>
    /\ raw_tags = <<>>
    /\ normalized = <<>>
    /\ renormalized = <<>>
    /\ found_tags = <<>>
    /\ DataIdle
    /\ RenderIdle
    /\ CacheIdle
    /\ pc = "idle"

\* the tag list of the command once its path has produced it
CommandTags == IF image_url THEN user_tags ELSE normalized

\* handle_recruit: `if not tags` ends the request
NoTags ==
    /\ pc \in {"normalized", "extracted"}
    /\ CommandTags = <<>>
    /\ pc' = "finished"
    /\ UNCHANGED <<solverVars, normalizerVars, splitterVars, ocrVars, dataVars,
                   pluginVars>>

\* handle_recruit: result = await _do_recruit(tags)
DoRecruit ==
    /\ pc \in {"normalized", "extracted"}
    /\ CommandTags # <<>>
    /\ user_tags' = CommandTags
    /\ results' = find_recruit_combinations(CommandTags, operators, max_combo_size)
    /\ pc' = "solved"
    /\ UNCHANGED <<operators, normalizerVars, splitterVars, ocrVars, dataVars,
                   pluginVars>>

NextRecruit ==
    \/ ~image_url /\ NextSplit
    \/ image_url /\ NextOcr
    \/ NoTags
    \/ DoRecruit

SpecRecruit == InitRecruit /\ [][NextRecruit]_vars

(***************************************************************************)
(* format_results: the text form of a result list                          *)
(***************************************************************************)
\* str(n) of a natural number
RECURSIVE IntToStr(_)
IntToStr(n) ==
    IF n < 10 THEN <<48 + n>> ELSE IntToStr(n \div 10) \o <<48 + (n % 10)>>

\* sep.join(items)
RECURSIVE Join(_, _)
Join(sep, items) ==
    IF items = <<>> THEN <<>>
    ELSE IF Len(items) = 1 THEN items[1]
    ELSE items[1] \o sep \o Join(sep, Tail(items))

\* RARITY_STARS[rarity], else f"{rarity + 1}★"
rarity_display(rarity) ==
    IF rarity \in 0 .. 5 THEN [i \in 1 .. rarity + 1 |-> 9733]
    ELSE IntToStr(rarity + 1) \o <<9733>>

\* the mark in front of a header line
Prefix(min_star) ==
    IF min_star >= 5 THEN <<127775>>
    ELSE IF min_star >= 4 THEN <<11088>>
    ELSE IF min_star = 1 THEN <<129302>>
    ELSE <<9642, 65039>>

\* variant: the floor is shown 0-based
HeaderLine_ZeroBased(r) ==
    Prefix(r.min_rarity + 1) \o <<12304>> \o Join(<<32, 43, 32>>, r.tags)
        \o <<12305, 40, 20445, 24213, 32>> \o IntToStr(r.min_rarity) \o <<9733, 41>>

\* f"{prefix}【{tag_str}】(保底 {min_star}★)"
HeaderLine(r) ==
    LET min_star == r.min_rarity + 1
    IN  Prefix(min_star) \o <<12304>> \o Join(<<32, 43, 32>>, r.tags)
            \o <<12305, 40, 20445, 24213, 32>> \o IntToStr(min_star) \o <<9733, 41>>

\* f"  {star} {op['name']}"
OperatorLine(op) == <<32, 32>> \o rarity_display(op.rarity) \o <<32>> \o op.name

\* the lines one iteration of the loop over results appends
ResultLines(res, i) ==
    <<HeaderLine(res[i])>>
        \o [k \in DOMAIN res[i].operators |-> OperatorLine(res[i].operators[k])]
        \o (IF i < Len(res) THEN << <<>> >> ELSE <<>>)

RECURSIVE FormatLoop(_, _)
FormatLoop(res, i) ==
    IF i > Len(res) THEN <<>> ELSE ResultLines(res, i) \o FormatLoop(res, i + 1)

\* "没有找到有价值的标签组合喵~\n（只显示保底 4★ 及以上和 1★ 的组合）"
NothingFound ==
    <<27809, 26377, 25214, 21040, 26377, 20215, 20540, 30340, 26631, 31614,
      32452, 21512, 21941, 126, 10, 65288, 21482, 26174, 31034, 20445, 24213,
      32, 52, 9733, 32, 21450, 20197, 19978, 21644, 32, 49, 9733, 32, 30340,
      32452, 21512, 65289>>

format_results(res) ==
    IF res = <<>> THEN NothingFound ELSE Join(<<10>>, FormatLoop(res, 1))

\* results to format: tag subsets in two orders, operator lists in two
\* orders, floors that show as one and as two digits
FormatTags == {<<TagDps>>, <<TOP_VETERAN, TagDps>>, <<TagDps, TOP_VETERAN>>}

FormatOperators ==
    LET a == [name |-> NameA, rarity |-> 5, tags |-> {TOP_VETERAN, TagDps}]
        b == [name |-> NameB, rarity |-> 3, tags |-> {TagDps}]
        c == [name |-> NameB, rarity |-> 0, tags |-> {TagDps}]
        d == [name |-> NameA, rarity |-> 9, tags |-> {TagDps}]
    IN  {<<a>>, <<a, b>>, <<b, a>>, <<c>>, <<d, a>>}

FormatResults ==
    [tags : FormatTags, operators : FormatOperators, min_rarity : {0, 2, 3, 5, 9}]

InitFormat ==
    /\ results \in SeqsUpTo(FormatResults, MaxResults)
    /\ operators = <<>>
    /\ user_tags = <<>>
    /\ formatted = <<>>
    /\ NormalizerIdle
    /\ SplitterIdle
    /\ OcrIdle
    /\ DataIdle
    /\ CommandIdle
    /\ CacheIdle
    /\ pc = "idle"

Format ==
    /\ pc = "idle"
    /\ formatted' = format_results(results)
    /\ pc' = "formatted"
    /\ UNCHANGED <<solverVars, normalizerVars, splitterVars, ocrVars, dataVars,
                   commandVars, cacheVars>>

NextFormat == Format

SpecFormat == InitFormat /\ [][NextFormat]_vars

(***************************************************************************)
(* Inputs of the dataset builder                                           *)
(***************************************************************************)
\* "无名", "无名2", "无名3"
NameWuming  == <<26080, 21517>>
NameWuming2 == <<26080, 21517, 50>>
NameWuming3 == <<26080, 21517, 51>>

\* roster fragments (LF is a line feed):
\*   "★" LF "无名" LF
RosterStar1 == <<9733, 10, 26080, 21517, 10>>
\*   LF "★★" LF "无名2/无名3"
RosterStar2 == <<10, 9733, 9733, 10, 26080, 21517, 50, 47, 26080, 21517, 51>>
\*   "<@rc.eml>无名</>/无名2" LF
RosterMarkupFirst ==
    <<60, 64, 114, 99, 46, 101, 109, 108, 62, 26080, 21517, 60, 47, 62, 47, 26080, 21517, 50, 10>>
\*   "无名3／<@rc.eml>无名</> / -" LF
RosterMarkupInside ==
    <<26080, 21517, 51, 65295, 60, 64, 114, 99, 46, 101, 109, 108, 62, 26080, 21517, 60, 47, 62, 32, 47, 32, 45, 10>>
\*   "★\n无名2\n" with a backslash and an "n" in place of each line feed
RosterEscaped == <<9733, 92, 110, 26080, 21517, 50, 92, 110>>

RosterBlocks ==
    {RosterStar1, RosterStar2, RosterMarkupFirst, RosterMarkupInside, RosterEscaped}

RosterTexts == {Concat(bs) : bs \in SeqsUpTo(RosterBlocks, MaxBlocks)}

\* rarity values of a record: 0, 4, 6, "3", "TIER_6", "abc", null, and no
\* "rarity" key
RawRarities ==
    {IntRaw(0), IntRaw(4), IntRaw(6),
     StrRaw(<<51>>), StrRaw(<<84, 73, 69, 82, 95, 54>>),
     StrRaw(<<97, 98, 99>>), NullRaw, AbsentRaw}

\* the other fields of a record: a melee guard with one declared tag, a
\* ranged sniper with none, and a record with an unknown profession, no
\* position and no declared tag
RecordShapes ==
    {[profession |-> "WARRIOR", position |-> "MELEE", tagList |-> <<TagDps>>],
     [profession |-> "SNIPER", position |-> "RANGED", tagList |-> <<>>],
     [profession |-> "TOKEN", position |-> "NONE", tagList |-> <<>>]}

\* the values of character_table.json: named records, a record with an empty
\* name, and a value that is no object
CharRecords ==
    {[dict |-> TRUE, name |-> n, rarity |-> r, profession |-> sh.profession,
      position |-> sh.position, tagList |-> sh.tagList] :
         n \in {NameWuming, NameWuming2}, r \in RawRarities, sh \in RecordShapes}
      \cup {[dict |-> TRUE, name |-> <<>>, rarity |-> IntRaw(0),
             profession |-> "WARRIOR", position |-> "MELEE", tagList |-> <<TagDps>>]}
      \cup {[dict |-> FALSE, name |-> <<>>, rarity |-> NullRaw, profession |-> "",
             position |-> "", tagList |-> <<>>]}

CharTables == SeqsUpTo(CharRecords, MaxRecords)

GachaTagLists ==
    {<<>>, <<[tagName |-> TagDps], [tagName |-> TOP_VETERAN]>>}

GachaTables == [recruitDetail : RosterTexts, gachaTags : GachaTagLists]

(***************************************************************************)
(* The dataset builder as a state machine: the two tables are on disk,     *)
(* _load_cache builds the dataset from them                                *)
(***************************************************************************)
InitBuild ==
    /\ char_table \in CharTables
    /\ gacha_table \in GachaTables
    /\ recruit_pool = {}
    /\ SolverIdle
    /\ NormalizerIdle
    /\ SplitterIdle
    /\ OcrIdle
    /\ PluginIdle
    /\ pc = "idle"

\* _load_cache: _cached_operators, _cached_valid_tags = build_recruit_data()
LoadCache ==
    /\ pc = "idle"
    /\ recruit_pool' = parse_recruit_pool(gacha_table)
    /\ operators' = BuildLoop(char_table, recruit_pool')
    /\ valid_tags' = get_all_recruit_tags(gacha_table)
    /\ pc' = "built"
    /\ UNCHANGED <<user_tags, results, raw_tags, normalized, renormalized,
                   splitterVars, ocrVars, char_table, gacha_table, pluginVars>>

NextBuild == LoadCache

SpecBuild == InitBuild /\ [][NextBuild]_vars

(***************************************************************************)
(* The dataset cache and the data files under concurrent commands.  The    *)
(* handlers are coroutines of one event loop: a step below is the code     *)
(* from one suspension point (an await that reaches the network) to the    *)
(* next one.  Awaiting _ensure_data or _do_recruit does not suspend.       *)
(***************************************************************************)
is_data_ready(cf, gf) == cf.exists /\ gf.exists

\* build_recruit_data raises when json.load rejects one of the files
BuildRaises(cf, gf) == ~cf.ok \/ ~gf.ok

\* the dataset the build_recruit_data call numbered `by` returns
BuildOf(by, cf, gf) == [by |-> by, char |-> cf.call, gacha |-> gf.call]

\* variant: a build that raises clears the cache
CacheAfterLoad_ClearOnRaise(ops, tags, by, cf, gf) ==
    IF ~is_data_ready(cf, gf) THEN <<NoBuild, NoBuild>>
    ELSE IF BuildRaises(cf, gf) THEN <<NoBuild, NoBuild>>
    ELSE <<BuildOf(by, cf, gf), BuildOf(by, cf, gf)>>

\* variant: the two fields are stored by two loads, the second one step late
CacheAfterLoad_OperatorsFirst(ops, tags, by, cf, gf) ==
    IF ~is_data_ready(cf, gf) THEN <<NoBuild, NoBuild>>
    ELSE IF BuildRaises(cf, gf) THEN <<ops, tags>>
    ELSE <<BuildOf(by, cf, gf), ops>>

\* _load_cache: the two cache fields after the call
CacheAfterLoad(ops, tags, by, cf, gf) ==
    IF ~is_data_ready(cf, gf) THEN <<NoBuild, NoBuild>>
    ELSE IF BuildRaises(cf, gf) THEN <<ops, tags>>
    ELSE <<BuildOf(by, cf, gf), BuildOf(by, cf, gf)>>

\* whether _load_cache ends with the exception of build_recruit_data
LoadRaises(cf, gf) == is_data_ready(cf, gf) /\ BuildRaises(cf, gf)

\* _ensure_data: its result and the cache fields after it
EnsureData(ops, tags, by, cf, gf) ==
    IF ops # NoBuild /\ tags # NoBuild
    THEN [status |-> "ok", ops |-> ops, tags |-> tags]
    ELSE IF ~is_data_ready(cf, gf)
    THEN [status |-> "need_download", ops |-> ops, tags |-> tags]
    ELSE LET c == CacheAfterLoad(ops, tags, by, cf, gf)
         IN  [status |-> IF BuildRaises(cf, gf) THEN "raised"
                         ELSE IF c[1] = NoBuild \/ c[2] = NoBuild THEN "load_failed"
                         ELSE "ok",
              ops |-> c[1], tags |-> c[2]]

\* variant: the valid tags are the ones of the cache _ensure_data found
UsedBy_TagsAtCheck(ensured, tags, ops) == [tags |-> ensured, ops |-> ops]

\* the cache fields a query reads: _cached_valid_tags when it splits and
\* normalizes or extracts, _cached_operators in _do_recruit
UsedBy(ensured, tags, ops) == [tags |-> tags, ops |-> ops]

\* handle_recruit once data_status is None: a screenshot command awaits the
\* image and the OCR service; a text command ends without a query or calls
\* the solver, without suspending
AfterEnsure(rec, ops, tags) ==
    IF rec.mode = "image"
    THEN {[rec EXCEPT !.pc = "ocr", !.ensured = ops]}
    ELSE {[rec EXCEPT !.pc = "finished", !.ensured = ops],
          [rec EXCEPT !.pc = "done", !.ensured = ops,
                      !.used_tags = UsedBy(ops, tags, ops).tags,
                      !.used_ops = UsedBy(ops, tags, ops).ops]}

\* handle_recruit after _ensure_data returned
AfterStatus(rec, e) ==
    CASE e.status = "ok" -> AfterEnsure(rec, e.ops, e.tags)
      [] e.status = "need_download" -> {[rec EXCEPT !.pc = "send"]}
      [] e.status = "raised" -> {[rec EXCEPT !.pc = "raised"]}
      [] OTHER -> {[rec EXCEPT !.pc = "finished"]}

\* download_game_data: the request it awaits next
NextAfterChar(force, gf) == IF force \/ ~gf.exists THEN "gacha_get" ELSE "close"

DownloadBegin(force, cf, gf) ==
    IF force \/ ~cf.exists THEN "char_get" ELSE NextAfterChar(force, gf)

\* write_bytes(resp.content) by the download call numbered `call`
WrittenFiles(call) == {[exists |-> TRUE, call |-> call, ok |-> k] : k \in BOOLEAN}

nonCacheVars ==
    <<solverVars, normalizerVars, splitterVars, ocrVars, dataVars, pc,
      commandVars, renderVars>>

\* the process starts with an empty cache; the data files are absent, or are
\* the pair an earlier run downloaded
InitCache ==
    /\ cached_operators = NoBuild
    /\ cached_valid_tags = NoBuild
    /\ \/ char_file = AbsentFile /\ gacha_file = AbsentFile
       \/ char_file = EarlierFile /\ gacha_file = EarlierFile
    /\ recruits = [r \in Recruits |-> IdleRecruit]
    /\ updates = [u \in Updates |-> IdleUpdate]
    /\ SolverIdle
    /\ NormalizerIdle
    /\ SplitterIdle
    /\ OcrIdle
    /\ DataIdle
    /\ CommandIdle
    /\ RenderIdle
    /\ pc = "idle"

\* handle_recruit up to its first suspension: await _ensure_data()
RecruitStart(r) ==
    /\ recruits[r].pc = "idle"
    /\ \E mode \in {"text", "image"} :
           LET e == EnsureData(cached_operators, cached_valid_tags, r,
                               char_file, gacha_file)
           IN  /\ cached_operators' = e.ops
               /\ cached_valid_tags' = e.tags
               /\ \E nxt \in AfterStatus([recruits[r] EXCEPT !.mode = mode], e) :
                      recruits' = [recruits EXCEPT ![r] = nxt]
    /\ UNCHANGED <<char_file, gacha_file, updates, nonCacheVars>>

\* handle_recruit: the notice was sent, download_game_data starts
RecruitSent(r) ==
    /\ recruits[r].pc = "send"
    /\ recruits' = [recruits EXCEPT
                       ![r].pc = DownloadBegin(FALSE, char_file, gacha_file)]
    /\ UNCHANGED <<cached_operators, cached_valid_tags, char_file, gacha_file,
                   updates, nonCacheVars>>

\* download_game_data: the character table arrived, or the request failed
RecruitCharResponse(r) ==
    /\ recruits[r].pc = "char_get"
    /\ \/ /\ recruits' = [recruits EXCEPT ![r].pc = "finished"]
          /\ UNCHANGED char_file
       \/ /\ char_file' \in WrittenFiles(r)
          /\ recruits' = [recruits EXCEPT ![r].pc = NextAfterChar(FALSE, gacha_file)]
    /\ UNCHANGED <<cached_operators, cached_valid_tags, gacha_file, updates,
                   nonCacheVars>>

\* download_game_data: the pool table arrived, or the request failed
RecruitGachaResponse(r) ==
    /\ recruits[r].pc = "gacha_get"
    /\ \/ /\ recruits' = [recruits EXCEPT ![r].pc = "finished"]
          /\ UNCHANGED gacha_file
       \/ /\ gacha_file' \in WrittenFiles(r)
          /\ recruits' = [recruits EXCEPT ![r].pc = "close"]
    /\ UNCHANGED <<cached_operators, cached_valid_tags, char_file, updates,
                   nonCacheVars>>

\* handle_recruit after the download: _load_cache(), await _ensure_data()
RecruitLoad(r) ==
    /\ recruits[r].pc = "close"
    /\ LET c == CacheAfterLoad(cached_operators, cached_valid_tags, r,
                               char_file, gacha_file)
           e == EnsureData(c[1], c[2], r, char_file, gacha_file)
       IN  IF LoadRaises(char_file, gacha_file)
           THEN /\ cached_operators' = c[1]
                /\ cached_valid_tags' = c[2]
                /\ recruits' = [recruits EXCEPT ![r].pc = "raised"]
           ELSE /\ cached_operators' = e.ops
                /\ cached_valid_tags' = e.tags
                /\ \E nxt \in (IF e.status = "ok"
                               THEN AfterEnsure(recruits[r], e.ops, e.tags)
                               ELSE {[recruits[r] EXCEPT !.pc = "finished"]}) :
                       recruits' = [recruits EXCEPT ![r] = nxt]
    /\ UNCHANGED <<char_file, gacha_file, updates, nonCacheVars>>

\* handle_recruit, screenshot path: the image and the OCR lines arrived; the
\* command ends without a query, or extracts the tags and calls the solver
RecruitOcr(r) ==
    /\ recruits[r].pc = "ocr"
    /\ \/ recruits' = [recruits EXCEPT ![r].pc = "finished"]
       \/ LET u == UsedBy(recruits[r].ensured, cached_valid_tags, cached_operators)
          IN  recruits' = [recruits EXCEPT ![r].pc = "done",
                                           ![r].used_tags = u.tags,
                                           ![r].used_ops = u.ops]
    /\ UNCHANGED <<cached_operators, cached_valid_tags, char_file, gacha_file,
                   updates, nonCacheVars>>

\* handle_update up to its first suspension: the notice is being sent
UpdateStart(u) ==
    /\ updates[u].pc = "idle"
    /\ updates' = [updates EXCEPT ![u].pc = "send"]
    /\ UNCHANGED <<cached_operators, cached_valid_tags, char_file, gacha_file,
                   recruits, nonCacheVars>>

\* handle_update: download_game_data(force=True) starts
UpdateSent(u) ==
    /\ updates[u].pc = "send"
    /\ updates' = [updates EXCEPT
                      ![u].pc = DownloadBegin(TRUE, char_file, gacha_file)]
    /\ UNCHANGED <<cached_operators, cached_valid_tags, char_file, gacha_file,
                   recruits, nonCacheVars>>

UpdateCharResponse(u) ==
    /\ updates[u].pc = "char_get"
    /\ \/ /\ updates' = [updates EXCEPT ![u].pc = "download_failed"]
          /\ UNCHANGED char_file
       \/ /\ char_file' \in WrittenFiles(u)
          /\ updates' = [updates EXCEPT ![u].pc = NextAfterChar(TRUE, gacha_file)]
    /\ UNCHANGED <<cached_operators, cached_valid_tags, gacha_file, recruits,
                   nonCacheVars>>

UpdateGachaResponse(u) ==
    /\ updates[u].pc = "gacha_get"
    /\ \/ /\ updates' = [updates EXCEPT ![u].pc = "download_failed"]
          /\ UNCHANGED gacha_file
       \/ /\ gacha_file' \in WrittenFiles(u)
          /\ updates' = [updates EXCEPT ![u].pc = "close"]
    /\ UNCHANGED <<cached_operators, cached_valid_tags, char_file, recruits,
                   nonCacheVars>>

\* handle_update after the download: _load_cache()
UpdateLoad(u) ==
    /\ updates[u].pc = "close"
    /\ LET c == CacheAfterLoad(cached_operators, cached_valid_tags, u,
                               char_file, gacha_file)
       IN  /\ cached_operators' = c[1]
           /\ cached_valid_tags' = c[2]
           /\ updates' = [updates EXCEPT
                             ![u].pc = IF LoadRaises(char_file, gacha_file)
                                       THEN "raised" ELSE "done"]
    /\ UNCHANGED <<char_file, gacha_file, recruits, nonCacheVars>>

NextCache ==
    \/ \E r \in Recruits :
           \/ RecruitStart(r)
           \/ RecruitSent(r)
           \/ RecruitCharResponse(r)
           \/ RecruitGachaResponse(r)
           \/ RecruitLoad(r)
           \/ RecruitOcr(r)
    \/ \E u \in Updates :
           \/ UpdateStart(u)
           \/ UpdateSent(u)
           \/ UpdateCharResponse(u)
           \/ UpdateGachaResponse(u)
           \/ UpdateLoad(u)

SpecCache == InitCache /\ [][NextCache]_vars

(***************************************************************************)
(* Reference notions used to state the properties of the solver.  They are *)
(* written over sets of positions, independently of the loops above.       *)
(***************************************************************************)
Solved == pc = "solved"

\* the position sets of the combinations of 1..min(3, len(user_tags)) user tags
IndexCombos ==
    {S \in SUBSET DOMAIN user_tags :
        /\ Cardinality(S) >= 1
        /\ Cardinality(S) <= 3
        /\ Cardinality(S) <= Len(user_tags)}

\* the user tags at the positions S, in the user's order
SubseqAt(S) ==
    LET f[i \in 0 .. Len(user_tags)] ==
            IF i = 0 THEN <<>>
            ELSE IF i \in S THEN Append(f[i - 1], user_tags[i])
            ELSE f[i - 1]
    IN  f[Len(user_tags)]

TagSetAt(S) == {user_tags[i] : i \in S}

\* positions of the operators whose tags include every tag of a tag set
Covering(tagset) == {j \in DOMAIN operators : tagset \subseteq operators[j].tags}

\* the gated match set: covering operators, minus rarity-5 operators when
\* the tag set lacks the top-veteran tag
GatedMatch(tagset) ==
    {j \in Covering(tagset) :
        operators[j].rarity = 5 => TOP_VETERAN \in tagset}

\* non-empty, and minimum rarity >= 3 or maximum rarity 0
RefKept(tagset) ==
    /\ GatedMatch(tagset) # {}
    /\ \/ \A j \in GatedMatch(tagset) : operators[j].rarity >= 3
       \/ \A j \in GatedMatch(tagset) : operators[j].rarity = 0

\* a result lists exactly the operators at the positions G, with multiplicity
ListsExactly(r, G) ==
    /\ Len(r.operators) = Cardinality(G)
    /\ \A n \in Names, q \in Rarities :
           Cardinality({k \in DOMAIN r.operators :
                           r.operators[k] = [name |-> n, rarity |-> q]})
             = Cardinality({j \in G : operators[j].name = n
                                      /\ operators[j].rarity = q})

ResultsFor(tagseq) == {i \in DOMAIN results : results[i].tags = tagseq}

(***************************************************************************)
(* C1: no result lists a rarity-5 operator unless the result's own tag     *)
(* subset contains the top-veteran tag.                                    *)
(***************************************************************************)
C1_RarityGate ==
    \A i \in DOMAIN results :
        \A k \in DOMAIN results[i].operators :
            results[i].operators[k].rarity = 5
                => TOP_VETERAN \in Range(results[i].tags)

\* one result withholds a covering rarity-5 operator, another lists one
C1_Witness ==
    /\ Solved
    /\ \E i \in DOMAIN results :
           /\ TOP_VETERAN \notin Range(results[i].tags)
           /\ \E j \in Covering(Range(results[i].tags)) : operators[j].rarity = 5
    /\ \E i \in DOMAIN results :
           \E k \in DOMAIN results[i].operators :
               results[i].operators[k].rarity = 5

(***************************************************************************)
(* C2: min_rarity of a result is never 1 or 2, and when it is 0 every      *)
(* operator listed in the result has rarity 0.                             *)
(***************************************************************************)
C2_ValueFilter ==
    \A i \in DOMAIN results :
        /\ results[i].min_rarity \notin {1, 2}
        /\ results[i].min_rarity = 0
               => \A k \in DOMAIN results[i].operators :
                      results[i].operators[k].rarity = 0

\* a combination whose floor is 1 or 2 was dropped, one with floor 0 was kept
C2_Witness ==
    /\ Solved
    /\ \E S \in IndexCombos :
           /\ GatedMatch(TagSetAt(S)) # {}
           /\ \A j \in GatedMatch(TagSetAt(S)) : operators[j].rarity >= 1
           /\ \E j \in GatedMatch(TagSetAt(S)) : operators[j].rarity \in {1, 2}
           /\ ResultsFor(SubseqAt(S)) = {}
    /\ \E i \in DOMAIN results : results[i].min_rarity = 0

(***************************************************************************)
(* C3: the results are exactly the reference set: one result for each      *)
(* combination of 1..min(3, len) user tags whose gated match set is        *)
(* non-empty with minimum rarity >= 3 or maximum rarity 0, and the result  *)
(* lists exactly that gated match set.                                     *)
(***************************************************************************)
C3_ReferenceSet ==
    Solved =>
        /\ \A S \in IndexCombos :
               RefKept(TagSetAt(S)) =>
                   \E i \in ResultsFor(SubseqAt(S)) :
                       ListsExactly(results[i], GatedMatch(TagSetAt(S)))
        /\ \A i \in DOMAIN results :
               \E S \in IndexCombos :
                   /\ results[i].tags = SubseqAt(S)
                   /\ RefKept(TagSetAt(S))
                   /\ ListsExactly(results[i], GatedMatch(TagSetAt(S)))
        /\ Len(results) = Cardinality({S \in IndexCombos : RefKept(TagSetAt(S))})

\* four user tags, all four carried by operators that would pass the filter:
\* the combination of all four is beyond the size ceiling and gives no result
C3_Witness ==
    /\ Solved
    /\ Len(user_tags) = 4
    /\ RefKept(Range(user_tags))
    /\ ResultsFor(user_tags) = {}
    /\ \E i \in DOMAIN results : Len(results[i].tags) = 3
    /\ \E S \in IndexCombos : ~RefKept(TagSetAt(S))

(***************************************************************************)
(* C4: the result list is non-increasing in min_rarity, and among equal    *)
(* min_rarity non-decreasing in the number of tags.                        *)
(***************************************************************************)
C4_SortOrder ==
    \A i, j \in DOMAIN results :
        i < j =>
            /\ results[i].min_rarity >= results[j].min_rarity
            /\ results[i].min_rarity = results[j].min_rarity
                   => Len(results[i].tags) <= Len(results[j].tags)

\* the final sort moved a result, and two results of equal floor differ in size
C4_Witness ==
    /\ Solved
    /\ results # UnsortedResults(user_tags, operators, 1,
                                 MaxSize(user_tags, max_combo_size))
    /\ \E i, j \in DOMAIN results :
           /\ results[i].min_rarity = results[j].min_rarity
           /\ Len(results[i].tags) < Len(results[j].tags)
    /\ \E i, j \in DOMAIN results :
           results[i].min_rarity > results[j].min_rarity

(***************************************************************************)
(* C5: every result has a non-empty operators list, and its min_rarity is  *)
(* the minimum rarity over the operators it lists.                         *)
(***************************************************************************)
C5_MinRarityField ==
    \A i \in DOMAIN results :
        /\ results[i].operators # <<>>
        /\ \E k \in DOMAIN results[i].operators :
               results[i].operators[k].rarity = results[i].min_rarity
        /\ \A k \in DOMAIN results[i].operators :
               results[i].operators[k].rarity >= results[i].min_rarity

\* a result lists operators of different rarities, and a combination that
\* matched nothing gave no result
C5_Witness ==
    /\ Solved
    /\ \E i \in DOMAIN results :
           \E k, l \in DOMAIN results[i].operators :
               results[i].operators[k].rarity # results[i].operators[l].rarity
    /\ \E S \in IndexCombos :
           /\ GatedMatch(TagSetAt(S)) = {}
           /\ ResultsFor(SubseqAt(S)) = {}

(***************************************************************************)
(* C6: the rarity-5 gate is decided per subset, not per query: when the    *)
(* user tags include the top-veteran tag, a rarity-5 operator covering a   *)
(* result's subset is listed in it exactly when that subset contains the   *)
(* top-veteran tag.  Scenarios A and B of the spec are the instances.      *)
(***************************************************************************)
Alpha == [name |-> NameA, rarity |-> 4, tags |-> {TagDps, TagSurvival}]
Beta  == [name |-> NameB, rarity |-> 5,
          tags |-> {TagDps, TagSurvival, TOP_VETERAN}]

ScenarioA == operators = <<Alpha, Beta>> /\ user_tags = <<TagDps, TagSurvival>>
ScenarioB ==
    operators = <<Alpha, Beta>> /\ user_tags = <<TagDps, TagSurvival, TOP_VETERAN>>

OnlyAlphaFor(tagseq) ==
    \E i \in ResultsFor(tagseq) :
        /\ results[i].operators = << [name |-> NameA, rarity |-> 4] >>
        /\ results[i].min_rarity = 4

\* C6: a covering rarity-5 operator is listed in a result exactly when the
\* result's own subset contains the top-veteran tag (scenarios A and B)
C6_GatePerSubset ==
    Solved =>
        /\ TOP_VETERAN \in Range(user_tags) =>
               \A i \in DOMAIN results :
                   \A j \in Covering(Range(results[i].tags)) :
                       operators[j].rarity = 5 =>
                           ([name |-> operators[j].name, rarity |-> 5]
                                 \in Range(results[i].operators)
                              <=> TOP_VETERAN \in Range(results[i].tags))
        /\ ScenarioA => OnlyAlphaFor(<<TagDps, TagSurvival>>)
        /\ ScenarioB =>
               /\ OnlyAlphaFor(<<TagDps, TagSurvival>>)
               /\ \E i \in ResultsFor(<<TagDps, TagSurvival, TOP_VETERAN>>) :
                      results[i].operators = << [name |-> NameB, rarity |-> 5] >>

C6_Witness == Solved /\ ScenarioB

(***************************************************************************)
(* C7: a subset whose matched operators are all of rarity 0 is kept, with  *)
(* min_rarity 0 and all of them listed; a subset that matches a rarity-0   *)
(* operator together with an operator of higher rarity gives no result.    *)
(***************************************************************************)
AllLowest(G) == G # {} /\ \A j \in G : operators[j].rarity = 0

Mixed(G) ==
    /\ \E j \in G : operators[j].rarity = 0
    /\ \E j \in G : operators[j].rarity > 0

\* C7: an all-rarity-0 subset is kept with min_rarity 0 and all its operators;
\* a subset mixing rarity 0 with a higher rarity gives no result
C7_LowestTierGuarantee ==
    Solved =>
        \A S \in IndexCombos :
            /\ AllLowest(GatedMatch(TagSetAt(S))) =>
                   \E i \in ResultsFor(SubseqAt(S)) :
                       /\ results[i].min_rarity = 0
                       /\ ListsExactly(results[i], GatedMatch(TagSetAt(S)))
            /\ Mixed(GatedMatch(TagSetAt(S))) => ResultsFor(SubseqAt(S)) = {}

\* one subset of the query guarantees the lowest tier, another one is mixed
C7_Witness ==
    /\ Solved
    /\ \E S \in IndexCombos : AllLowest(GatedMatch(TagSetAt(S)))
    /\ \E S \in IndexCombos : Mixed(GatedMatch(TagSetAt(S)))

(***************************************************************************)
(* C8: for a duplicate-free user-tag list, the tags of every result are a  *)
(* subsequence of the user-tag list (user order) of length between 1 and   *)
(* min(3, len), and each such subsequence gives one result at most (one    *)
(* exactly when it passes the filters): no two results carry the same tags.*)
(***************************************************************************)
C8_SubsetsInUserOrder ==
    (Solved /\ IsDuplicateFree(user_tags)) =>
        /\ \A i \in DOMAIN results :
               \E S \in IndexCombos : results[i].tags = SubseqAt(S)
        /\ \A S \in IndexCombos :
               Cardinality(ResultsFor(SubseqAt(S)))
                   = IF RefKept(TagSetAt(S)) THEN 1 ELSE 0
        /\ \A i, j \in DOMAIN results :
               i # j => results[i].tags # results[j].tags

\* the top-veteran tag comes first among four user tags, and results of two
\* and of three tags contain it
C8_Witness ==
    /\ Solved
    /\ Len(user_tags) = 4
    /\ user_tags[1] = TOP_VETERAN
    /\ \E i \in DOMAIN results :
           Len(results[i].tags) = 2 /\ results[i].tags[1] = TOP_VETERAN
    /\ \E i \in DOMAIN results :
           Len(results[i].tags) = 3 /\ results[i].tags[1] = TOP_VETERAN

(***************************************************************************)
(* C9: in every result the operators are ordered by rarity descending,     *)
(* operators of equal rarity by name ascending.                            *)
(***************************************************************************)
C9_OperatorsOrder ==
    \A i \in DOMAIN results :
        \A k, l \in DOMAIN results[i].operators :
            k < l =>
                /\ results[i].operators[k].rarity >= results[i].operators[l].rarity
                /\ results[i].operators[k].rarity = results[i].operators[l].rarity
                       => ~StrLess(results[i].operators[l].name,
                                   results[i].operators[k].name)

\* the dataset holds "B" before "A" at equal rarity, and a result lists both
C9_Witness ==
    /\ Solved
    /\ Len(operators) = 2
    /\ operators[1].name = NameB
    /\ operators[2].name = NameA
    /\ operators[1].rarity = operators[2].rarity
    /\ \E i \in DOMAIN results :
           /\ Len(results[i].operators) = 2
           /\ results[i].operators[1].name = NameA
           /\ results[i].operators[2].name = NameB

(***************************************************************************)
(* C10: normalize_tags is idempotent on canonical input: a duplicate-free  *)
(* list of members of the valid-tag list is returned unchanged, and        *)
(* normalizing the output of normalize_tags returns it unchanged.          *)
(* C10_Idempotent states this for every valid-tag list;                    *)
(* C10_IdempotentOnStrippedVocabulary for valid-tag lists whose tags are   *)
(* non-empty and carry no leading or trailing whitespace.                  *)
(***************************************************************************)
Normalized == pc \in {"normalized", "renormalized"}

CanonicalInput ==
    IsDuplicateFree(raw_tags) /\ Range(raw_tags) \subseteq Range(valid_tags)

IdempotentHere ==
    /\ (Normalized /\ CanonicalInput) => normalized = raw_tags
    /\ pc = "renormalized" => renormalized = normalized

\* C10, as claimed: for every valid-tag list, canonical input is returned
\* unchanged and normalizing twice equals normalizing once
C10_Idempotent == IdempotentHere

StrippedVocabulary ==
    \A i \in DOMAIN valid_tags :
        valid_tags[i] # <<>> /\ strip(valid_tags[i]) = valid_tags[i]

\* C10, amended: the same for valid-tag lists whose tags are non-empty and
\* carry no leading or trailing whitespace
C10_IdempotentOnStrippedVocabulary == StrippedVocabulary => IdempotentHere

\* a canonical list whose first tag is a substring of another valid tag went
\* through both normalizations
C10_Witness ==
    /\ pc = "renormalized"
    /\ StrippedVocabulary
    /\ valid_tags = <<TOP_VETERAN, TagSenior, TagDps>>
    /\ raw_tags = <<TagSenior, TOP_VETERAN>>
    /\ renormalized = raw_tags

(***************************************************************************)
(* Reference notions for the normalizer: the rule that resolves one        *)
(* trimmed token, written over positions of the valid-tag list.            *)
(***************************************************************************)
\* the raw token at position i, trimmed as the loop trims it
TokenAt(i) == strip(raw_tags[i])

ExactRule(t) == \E k \in DOMAIN valid_tags : valid_tags[k] = t

AliasRule(t) ==
    \E p \in TAG_ALIASES : p[1] = t /\ \E k \in DOMAIN valid_tags : valid_tags[k] = p[2]

\* positions of the valid tags that contain t as a substring
ContainingAt(t) == {k \in DOMAIN valid_tags : Contains(valid_tags[k], t)}

\* v is what the first applicable rule gives for the trimmed token t
ResolvesTo(t, v) ==
    \/ ExactRule(t) /\ v = t
    \/ /\ ~ExactRule(t)
       /\ AliasRule(t)
       /\ \E p \in TAG_ALIASES : p[1] = t /\ p[2] = v
    \/ /\ ~ExactRule(t)
       /\ ~AliasRule(t)
       /\ \E k \in ContainingAt(t) :
              /\ v = valid_tags[k]
              /\ \A j \in ContainingAt(t) : k <= j

NonBlank == {i \in DOMAIN raw_tags : TokenAt(i) # <<>>}

\* positions of the raw tokens that resolve to v
ResolvingAt(v) == {i \in NonBlank : ResolvesTo(TokenAt(i), v)}

(***************************************************************************)
(* C11: each non-blank raw token is resolved by the first applicable rule: *)
(* itself if it is a valid tag, else its alias target if that target is a  *)
(* valid tag, else the first valid tag (list order) containing it; a token *)
(* matching no rule contributes nothing, and an alias whose target is not  *)
(* a valid tag falls through to the substring rule.  The output holds      *)
(* exactly the tags some token resolves to.                                *)
(***************************************************************************)
C11_FirstApplicableRule ==
    Normalized =>
        \A v \in Range(normalized) \cup Range(valid_tags) :
            v \in Range(normalized) <=> ResolvingAt(v) # {}

\* "资深" is an alias of a tag outside the valid list and falls through to the
\* first valid tag containing it; "控场" is an alias of a tag outside the valid
\* list that no valid tag contains
C11_Witness ==
    /\ Normalized
    /\ valid_tags = <<TagDps, TOP_VETERAN>>
    /\ raw_tags = << <<36164, 28145>>, <<25511, 22330>> >>
    /\ normalized = <<TOP_VETERAN>>

(***************************************************************************)
(* C12: normalize_tags returns a duplicate-free list of members of         *)
(* valid_tags, ordered by the position of the first raw token that         *)
(* resolved to each tag; it is no longer than the raw token list, and      *)
(* empty when no token resolves.                                           *)
(***************************************************************************)
FirstResolvingAt(v) == CHOOSE i \in ResolvingAt(v) : \A j \in ResolvingAt(v) : i <= j

C12_OutputShape ==
    Normalized =>
        /\ IsDuplicateFree(normalized)
        /\ Range(normalized) \subseteq Range(valid_tags)
        /\ Len(normalized) <= Len(raw_tags)
        /\ \A k, l \in DOMAIN normalized :
               k < l =>
                   /\ ResolvingAt(normalized[k]) # {}
                   /\ ResolvingAt(normalized[l]) # {}
                   /\ FirstResolvingAt(normalized[k]) < FirstResolvingAt(normalized[l])
        /\ (\A v \in Range(valid_tags) : ResolvingAt(v) = {}) => normalized = <<>>

\* two tokens resolve to the same tag, by the substring rule and by exact match
C12_Witness ==
    /\ Normalized
    /\ valid_tags = <<TagDps, TOP_VETERAN>>
    /\ raw_tags = << <<36164, 28145>>, TOP_VETERAN >>
    /\ normalized = <<TOP_VETERAN>>

(***************************************************************************)
(* Reference notions for the splitter, written over the set of keywords    *)
(* (no order among keywords, no order of the valid-tag list).              *)
(***************************************************************************)
Pieces == SplitParts(text)

KeywordSet == Keywords(valid_tags)

\* the keywords that are a prefix of s
PrefixKeywords(s) == {kw \in KeywordSet : StartsWith(s, kw)}

OccursIn(s) == \E kw \in KeywordSet : Contains(s, kw)

\* the left-to-right scan of s: at each position the longest keyword that is
\* a prefix of the rest, then past it; one character further when there is none
RECURSIVE GreedyTokens(_)
GreedyTokens(s) ==
    IF s = <<>> THEN <<>>
    ELSE IF PrefixKeywords(s) = {} THEN GreedyTokens(Tail(s))
    ELSE LET kw == CHOOSE k \in PrefixKeywords(s) :
                       \A k2 \in PrefixKeywords(s) : Len(k2) <= Len(k)
         IN  <<kw>> \o GreedyTokens(Drop(s, Len(kw)))

PieceTokens(piece) ==
    IF piece \in KeywordSet THEN <<piece>>
    ELSE IF OccursIn(piece) THEN GreedyTokens(piece)
    ELSE <<piece>>

RECURSIVE TokensOf(_)
TokensOf(pieces) ==
    IF pieces = <<>> THEN <<>>
    ELSE PieceTokens(pieces[1]) \o TokensOf(Tail(pieces))

SplitReturned == pc \in {"split", "finished", "normalized"}

\* "高资近卫输出", "高资", "近卫"
ScenarioCText ==
    <<39640, 36164>> \o <<36817, 21355>> \o TagDps

ScenarioCTokens == << <<39640, 36164>>, <<36817, 21355>>, TagDps >>

\* one iteration of the scan loop, as the claim describes it
ScanIteration ==
    (pc = "while" /\ pc' = "while") =>
        IF PrefixKeywords(remaining) = {}
        THEN remaining' = Tail(remaining) /\ split_result' = split_result
        ELSE \E kw \in PrefixKeywords(remaining) :
                 /\ \A k2 \in PrefixKeywords(remaining) : Len(k2) <= Len(kw)
                 /\ split_result' = Append(split_result, kw)
                 /\ remaining' = Drop(remaining, Len(kw))

ScenarioC ==
    text = ScenarioCText =>
        /\ SplitReturned => raw_tags = ScenarioCTokens
        /\ (pc = "normalized" /\ {TOP_VETERAN, TagGuard, TagDps} \subseteq Range(valid_tags))
               => normalized = <<TOP_VETERAN, TagGuard, TagDps>>

(***************************************************************************)
(* C13: in a piece that is not itself an alias key or valid tag, every     *)
(* iteration of the scan emits the longest keyword that is a prefix of the *)
(* remaining text and advances past it, or advances by one character when  *)
(* no keyword is a prefix; the text "高资近卫输出" yields the tokens        *)
(* "高资", "近卫", "输出", which normalize_tags maps to "高级资深干员",     *)
(* "近卫干员", "输出" (the three being valid tags).                         *)
(***************************************************************************)
C13_GreedyLongestPrefix == [][ScanIteration]_vars /\ []ScenarioC

\* the unspaced text of the scenario went through the splitter and the
\* normalizer
C13_Witness ==
    /\ pc = "normalized"
    /\ text = ScenarioCText
    /\ raw_tags = ScenarioCTokens
    /\ normalized = <<TOP_VETERAN, TagGuard, TagDps>>

(***************************************************************************)
(* C14: smart_split_tags is deterministic: whatever the order in which     *)
(* keywords of equal length are tried, one keyword at most can be emitted  *)
(* at a position, and the returned tokens are a function of the text and   *)
(* of the set of keywords, the same for every order of the valid-tag list. *)
(***************************************************************************)
C14_Deterministic ==
    /\ pc = "while" => Cardinality(FirstMatches(remaining, valid_tags)) <= 1
    /\ SplitReturned => raw_tags = TokensOf(Pieces)

\* the valid-tag list holds two tags of equal length, the later-sorted one
\* first, and the scanned piece starts with two alias keys of different length
C14_Witness ==
    /\ pc = "split"
    /\ valid_tags = <<TOP_VETERAN, TagGuard, TagDps>>
    /\ text = <<120>> \o <<39640, 32423>> \o <<36164, 28145>>
    /\ raw_tags = << <<39640, 32423, 36164, 28145>> >>

(***************************************************************************)
(* C15: every token is a keyword or a whole piece emitted as it is, once,  *)
(* at its position.  The tokens are the concatenation, piece by piece, of: *)
(* the piece itself when it is a keyword or when no keyword occurs inside  *)
(* it; otherwise one or more keywords that occur in the piece in that      *)
(* order without overlap, the characters between and after them giving no  *)
(* token.                                                                  *)
(***************************************************************************)
\* the tokens occur in s one after the other, without overlap
RECURSIVE Embeds(_, _)
Embeds(s, toks) ==
    IF toks = <<>> THEN TRUE
    ELSE \E i \in 0 .. (Len(s) - Len(toks[1])) :
             /\ SubSeq(s, i + 1, i + Len(toks[1])) = toks[1]
             /\ Embeds(Drop(s, i + Len(toks[1])), Tail(toks))

PieceShape(piece, toks) ==
    IF piece \notin KeywordSet /\ OccursIn(piece)
    THEN /\ toks # <<>>
         /\ Range(toks) \subseteq KeywordSet
         /\ Embeds(piece, toks)
    ELSE toks = <<piece>>

\* the ways to cut the token list into one run of tokens per piece
Cuts(n, m) ==
    {c \in [0 .. n -> 0 .. m] :
        /\ c[0] = 0
        /\ c[n] = m
        /\ \A k \in 1 .. n : c[k - 1] <= c[k]}

C15_KeywordsOrVerbatim ==
    SplitReturned =>
        /\ \A k \in DOMAIN raw_tags :
               \/ raw_tags[k] \in KeywordSet
               \/ \E j \in DOMAIN Pieces :
                      Pieces[j] = raw_tags[k] /\ ~OccursIn(Pieces[j])
        /\ \E c \in Cuts(Len(Pieces), Len(raw_tags)) :
               \A j \in DOMAIN Pieces :
                   PieceShape(Pieces[j], SubSeq(raw_tags, c[j - 1] + 1, c[j]))

\* "x高资，x": the first piece gives its keyword only, the second one holds no
\* keyword and is emitted as it is
C15_Witness ==
    /\ pc = "split"
    /\ text = <<120>> \o <<39640, 36164>> \o <<65292>> \o <<120>>
    /\ raw_tags = << <<39640, 36164>>, <<120>> >>

(***************************************************************************)
(* C16: smart_split_tags terminates for every text and every valid-tag     *)
(* list: each iteration of the scan loop strictly shortens the remaining   *)
(* text.                                                                   *)
(***************************************************************************)
ScanShortens ==
    (pc = "while" /\ pc' = "while") => Len(remaining') < Len(remaining)

C16_ScanShortens == [][ScanShortens]_vars

(***************************************************************************)
(* Reference notions for the OCR-line extraction: what one trimmed line    *)
(* contributes, over positions of the valid-tag list.                      *)
(***************************************************************************)
Extracted == pc = "extracted"

LineAt(i) == strip(ocr_lines[i])

\* the tag at position k of the valid-tag list is contributed by line i
Contributes(i, k) ==
    LET line == LineAt(i)
    IN  /\ line # <<>>
        /\ IF ExactRule(line) THEN valid_tags[k] = line
           ELSE IF AliasRule(line)
                THEN \E p \in TAG_ALIASES : p[1] = line /\ p[2] = valid_tags[k]
           ELSE Contains(line, valid_tags[k])

\* <<i, k>>: the first line contributing the tag v, and the tag's position
FirstContribution(v) ==
    LET at == {ik \in (DOMAIN ocr_lines) \X (DOMAIN valid_tags) :
                  valid_tags[ik[2]] = v /\ Contributes(ik[1], ik[2])}
    IN  CHOOSE ik \in at :
            \A other \in at :
                \/ ik[1] < other[1]
                \/ ik[1] = other[1] /\ ik[2] <= other[2]

ContributedTags ==
    {valid_tags[k] : k \in {j \in DOMAIN valid_tags :
                               \E i \in DOMAIN ocr_lines : Contributes(i, j)}}

(***************************************************************************)
(* C17: extract_tags_from_ocr takes the lines in order; a non-blank line   *)
(* contributes itself if it is a valid tag, else its alias target if that  *)
(* is a valid tag, else every valid tag it contains, in valid_tags order.  *)
(* The output is duplicate-free, holds only valid tags, in the order of    *)
(* their first contribution, and a line that is exactly a valid tag        *)
(* contributes that tag only.                                              *)
(***************************************************************************)
C17_OcrExtraction ==
    Extracted =>
        /\ IsDuplicateFree(found_tags)
        /\ Range(found_tags) \subseteq Range(valid_tags)
        /\ Range(found_tags) = ContributedTags
        /\ \A a, b \in DOMAIN found_tags :
               a < b =>
                   LET fa == FirstContribution(found_tags[a])
                       fb == FirstContribution(found_tags[b])
                   IN  \/ fa[1] < fb[1]
                       \/ fa[1] = fb[1] /\ fa[2] < fb[2]
        /\ (Len(ocr_lines) = 1 /\ LineAt(1) # <<>> /\ ExactRule(LineAt(1)))
               => found_tags = <<LineAt(1)>>

\* a line that is exactly a valid tag and contains another valid tag gives
\* that tag only; the next line contains both and adds the other one
C17_Witness ==
    /\ Extracted
    /\ valid_tags = <<TagSenior, TOP_VETERAN, TagDps>>
    /\ ocr_lines = <<TOP_VETERAN, TOP_VETERAN \o TagDps>>
    /\ found_tags = <<TOP_VETERAN, TagSenior, TagDps>>

(***************************************************************************)
(* C18: every entity of the dataset build_recruit_data returns has its     *)
(* rarity in 0 .. 5, whatever the rarity value of its record.              *)
(***************************************************************************)
C18_RarityInRange ==
    \A i \in DOMAIN operators : operators[i].rarity \in 0 .. 5

(***************************************************************************)
(* C19: no two entities of the dataset build_recruit_data returns have the *)
(* same name, even when several records carry the same display name.       *)
(***************************************************************************)
C19_NamesUnique ==
    \A i, j \in DOMAIN operators : i # j => operators[i].name # operators[j].name

(***************************************************************************)
(* C20: parse_recruit_pool returns exactly the names obtained by dropping  *)
(* the blank lines and the star-marker lines, removing the inline markup   *)
(* from the other lines, splitting each of them on "/" or "／", trimming,   *)
(* and discarding a lone "-"; names on a line with markup are included;    *)
(* the roster "★\n无名\n\n★★\n无名2/无名3" gives 无名, 无名2, 无名3.        *)
(***************************************************************************)
\* .split on "/" and on "／"
RECURSIVE SplitSlashes(_, _)
SplitSlashes(t, cur) ==
    IF t = <<>> THEN <<cur>>
    ELSE IF t[1] \in {47, 65295} THEN <<cur>> \o SplitSlashes(Tail(t), <<>>)
    ELSE SplitSlashes(Tail(t), Append(cur, t[1]))

ClaimedLineNames(raw_line) ==
    LET line == strip(raw_line)
    IN  IF line = <<>> \/ line[1] = 9733 THEN {}
        ELSE {strip(n) : n \in Range(SplitSlashes(RemoveMarkup(line), <<>>))}
                 \ {<<>>, <<45>>}

ClaimedNames(roster) ==
    UNION {ClaimedLineNames(l) :
              l \in Range(SplitLines(UnescapeNewlines(roster), <<>>))}

C20_PoolAsClaimed ==
    pc = "built" =>
        /\ recruit_pool = ClaimedNames(gacha_table.recruitDetail)
        /\ gacha_table.recruitDetail = RosterStar1 \o RosterStar2
               => recruit_pool = {NameWuming, NameWuming2, NameWuming3}

(***************************************************************************)
(* C21: the operators list of build_recruit_data is the subsequence, in    *)
(* the order of the raw character table, of the records that are objects,  *)
(* have a non-empty name of the recruitable set and a recognizable rarity; *)
(* a record whose rarity is unrecognized or absent is left out and the     *)
(* build goes on; valid_tags is the tagName column of the pool table's tag *)
(* list, in its order.                                                     *)
(***************************************************************************)
\* a rarity encoding the parser knows: a non-negative integer, a tier label
\* of RARITY_MAP, or a string of digits
RecognizableRarity(r) ==
    \/ r.kind = "int" /\ r.num >= 0
    \/ r.kind = "str" /\ (\/ \E p \in RARITY_MAP : p[1] = r.str
                          \/ r.str # <<>> /\ \A i \in DOMAIN r.str : IsDigit(r.str[i]))

ClaimedEligible(rec) ==
    /\ rec.dict
    /\ rec.name # <<>>
    /\ rec.name \in recruit_pool
    /\ RecognizableRarity(rec.rarity)

C21_EligibleSubsequence ==
    pc = "built" =>
        LET eligible == SelectSeq(char_table, ClaimedEligible)
        IN  /\ Len(operators) = Len(eligible)
            /\ \A i \in DOMAIN operators : operators[i].name = eligible[i].name
            /\ Len(valid_tags) = Len(gacha_table.gachaTags)
            /\ \A i \in DOMAIN valid_tags :
                   valid_tags[i] = gacha_table.gachaTags[i].tagName

(***************************************************************************)
(* C22: the tag set of every entity is its record's declared tags, plus    *)
(* the profession tag of a known profession code, plus the melee or the    *)
(* ranged tag for position MELEE or RANGED, plus the rarity tag of rarity  *)
(* 0, 4 or 5 and of no other rarity; an entity of rarity 5 carries the     *)
(* top-veteran tag and one of rarity 1 to 3 gets no rarity tag.            *)
(***************************************************************************)
TagMelee == <<36817, 25112, 20301>>
TagRanged == <<36828, 31243, 20301>>
TagRobot == <<25903, 25588, 26426, 26800>>
TagSeniorOp == <<36164, 28145, 24178, 21592>>

\* the record the loop was at when it appended an entity
Accepted(rec) == BuildOne(rec, recruit_pool) # <<>>
SourceRecords == SelectSeq(char_table, Accepted)

AllDerivedTags ==
    {p[2] : p \in PROFESSION_MAP} \cup {TagMelee, TagRanged, TagRobot, TagSeniorOp, TOP_VETERAN}

ClaimedTag(rec, rarity, t) ==
    \/ t \in Range(rec.tagList)
    \/ <<rec.profession, t>> \in PROFESSION_MAP
    \/ rec.position = "MELEE" /\ t = TagMelee
    \/ rec.position = "RANGED" /\ t = TagRanged
    \/ rarity = 0 /\ t = TagRobot
    \/ rarity = 4 /\ t = TagSeniorOp
    \/ rarity = 5 /\ t = TOP_VETERAN

C22_TagSets ==
    pc = "built" =>
        /\ Len(SourceRecords) = Len(operators)
        /\ \A i \in DOMAIN operators :
               LET op == operators[i]
                   rec == SourceRecords[i]
               IN  /\ \A t \in op.tags \cup AllDerivedTags \cup Range(rec.tagList) :
                          t \in op.tags <=> ClaimedTag(rec, op.rarity, t)
                   /\ op.rarity = 5 => TOP_VETERAN \in op.tags
                   /\ op.rarity \in 1 .. 3 =>
                          \A t \in {TagRobot, TagSeniorOp, TOP_VETERAN} :
                              t \in op.tags => t \in Range(rec.tagList)

C22_Witness ==
    /\ pc = "built"
    /\ Len(operators) = 2
    /\ operators[1].rarity = 5
    /\ TagRanged \in operators[1].tags
    /\ operators[2].rarity = 3
    /\ TagMelee \in operators[2].tags
    /\ TagDps \in operators[2].tags

(***************************************************************************)
(* C23: valid_tags of the dataset build_recruit_data returns contains      *)
(* every tag of every entity's tag set, the declared tags and the tags     *)
(* added for the profession, the position and the rarity.                  *)
(***************************************************************************)
C23_ValidTagsSuperset ==
    pc = "built" =>
        \A i \in DOMAIN operators :
            \A t \in operators[i].tags : t \in Range(valid_tags)

(***************************************************************************)
(* C24: under any interleaving of recruit and update handlers at their     *)
(* suspension points, the valid-tag list a recruit command uses to split,  *)
(* normalize or extract and the operator list it passes to the solver come *)
(* from the same build of the dataset.                                     *)
(***************************************************************************)
C24_SameBuildUsed ==
    \A r \in Recruits :
        recruits[r].pc = "done" =>
            /\ recruits[r].used_ops # NoBuild
            /\ recruits[r].used_tags = recruits[r].used_ops

\* a screenshot command whose cache was replaced while it awaited the OCR
C24_Witness ==
    \E r \in Recruits :
        /\ recruits[r].pc = "done"
        /\ recruits[r].mode = "image"
        /\ recruits[r].ensured # NoBuild
        /\ recruits[r].used_ops # recruits[r].ensured

(***************************************************************************)
(* C25: at every point at which another handler can observe the cache,     *)
(* the pair (_cached_operators, _cached_valid_tags) is either None in both *)
(* fields or holds the two parts of one single build_recruit_data call.    *)
(***************************************************************************)
C25_CachePairWhole ==
    \/ cached_operators = NoBuild /\ cached_valid_tags = NoBuild
    \/ /\ cached_operators # NoBuild
       /\ cached_valid_tags = cached_operators

\* the cache was replaced by an update while a recruit command is suspended
C25_Witness ==
    /\ cached_operators.by \in Updates
    /\ \E r \in Recruits :
           /\ recruits[r].pc = "ocr"
           /\ recruits[r].ensured # cached_operators

(***************************************************************************)
(* C26: once the cache is populated it is replaced only by an explicit     *)
(* update command: no recruit command, under any interleaving, rebuilds or *)
(* replaces a populated cache, not even one of several recruit commands    *)
(* that started while the cache was empty and the data files absent.       *)
(***************************************************************************)
CachePopulated == cached_operators # NoBuild /\ cached_valid_tags # NoBuild

CacheReplaced ==
    <<cached_operators, cached_valid_tags>>' # <<cached_operators, cached_valid_tags>>

C26_OnlyUpdateReplaces ==
    [][CachePopulated /\ CacheReplaced => cached_operators'.by \in Updates]_vars

(***************************************************************************)
(* C29: every dataset that enters the cache is built from a character file *)
(* and a gacha file written by the same download_game_data call; the cache *)
(* never combines a newer character table with an older gacha table.       *)
(***************************************************************************)
C29_FilesOfOneDownload ==
    /\ cached_operators # NoBuild => cached_operators.char = cached_operators.gacha
    /\ cached_valid_tags # NoBuild => cached_valid_tags.char = cached_valid_tags.gacha

(***************************************************************************)
(* C30: a failed refresh leaves the cache unchanged: when                  *)
(* build_recruit_data raises while _load_cache runs, or when the forced    *)
(* download of the update command fails, both cache fields keep the values *)
(* they had.                                                               *)
(***************************************************************************)
\* the step in which a build raises inside _load_cache
BuildFailsNow ==
    \/ \E r \in Recruits : recruits[r].pc # "raised" /\ recruits'[r].pc = "raised"
    \/ \E u \in Updates : updates[u].pc # "raised" /\ updates'[u].pc = "raised"

\* the step in which a request of the forced download fails
ForcedDownloadFailsNow ==
    \E u \in Updates :
        updates[u].pc # "download_failed" /\ updates'[u].pc = "download_failed"

C30_FailedRefreshKeepsCache ==
    [][BuildFailsNow \/ ForcedDownloadFailsNow
           => UNCHANGED <<cached_operators, cached_valid_tags>>]_vars

\* an update whose build raised, or whose download failed, over a populated cache
C30_Witness ==
    /\ cached_operators # NoBuild
    /\ \E u \in Updates : updates[u].pc = "raised"

(***************************************************************************)
(* C27: every solver call of the recruit handler receives a duplicate-free *)
(* list of 1 to 5 tags that are all members of the cached valid tags; a    *)
(* text that splits into more than 5 tokens is rejected before it is       *)
(* normalized, and more than 5 tags extracted from a screenshot are cut to *)
(* the first 5.                                                            *)
(***************************************************************************)
C27_SolverInput ==
    /\ pc = "solved" =>
           /\ Len(user_tags) \in 1 .. 5
           /\ IsDuplicateFree(user_tags)
           /\ \A i \in DOMAIN user_tags :
                  \E j \in DOMAIN valid_tags : valid_tags[j] = user_tags[i]
    /\ ~image_url /\ Len(raw_tags) > 5 =>
           /\ pc \in {"split", "finished"}
           /\ normalized = <<>>
           /\ results = <<>>
    /\ image_url /\ pc = "solved" /\ Len(found_tags) > 5 =>
           /\ Len(user_tags) = 5
           /\ \A i \in 1 .. 5 : user_tags[i] = found_tags[i]

\* a screenshot showing six tags reached the solver
C27_Witness ==
    /\ pc = "solved"
    /\ image_url
    /\ Len(found_tags) = 6
    /\ Len(user_tags) = 5

\* a text of six tokens was turned down
C27_TextRejected ==
    /\ pc = "finished"
    /\ ~image_url
    /\ Len(raw_tags) = 6

(***************************************************************************)
(* C28: format_results mirrors the order of the solver: one header per     *)
(* result in input order, its tags joined in the order of the subset, the  *)
(* floor shown as min_rarity + 1, then one line per operator in the order  *)
(* of the result's operator list; an empty result list gives the fixed     *)
(* nothing-found message.                                                  *)
(***************************************************************************)
\* the line on which the header of result i stands
RECURSIVE HeaderAt(_)
HeaderAt(i) ==
    IF i = 1 THEN 1 ELSE HeaderAt(i - 1) + Len(results[i - 1].operators) + 2

RECURSIVE TagsJoined(_)
TagsJoined(ts) ==
    IF Len(ts) = 1 THEN ts[1]
    ELSE TagsJoined(SubSeq(ts, 1, Len(ts) - 1)) \o <<32, 43, 32>> \o ts[Len(ts)]

Decimal(n) == IF n < 10 THEN <<48 + n>> ELSE <<48 + (n \div 10), 48 + (n % 10)>>

\* "【tags】(保底 N★)" after a mark
IsHeaderOf(line, r) ==
    \E mark \in {<<127775>>, <<11088>>, <<129302>>, <<9642, 65039>>} :
        line = mark \o <<12304>> \o TagsJoined(r.tags)
                   \o <<12305, 40, 20445, 24213, 32>> \o Decimal(r.min_rarity + 1)
                   \o <<9733, 41>>

\* two spaces, a star text, a space and the name
IsOperatorLineOf(line, op) ==
    /\ Len(line) > Len(op.name) + 3
    /\ SubSeq(line, 1, 2) = <<32, 32>>
    /\ SubSeq(line, Len(line) - Len(op.name), Len(line)) = <<32>> \o op.name
    /\ \A k \in 3 .. Len(line) - Len(op.name) - 1 : line[k] # 32

C28_FormatMirrorsOrder ==
    pc = "formatted" =>
        IF results = <<>> THEN formatted = NothingFound
        ELSE LET lines == SplitLines(formatted, <<>>)
                 n == Len(results)
             IN  /\ Len(lines) = HeaderAt(n) + Len(results[n].operators)
                 /\ \A i \in 1 .. n :
                        /\ IsHeaderOf(lines[HeaderAt(i)], results[i])
                        /\ \A k \in DOMAIN results[i].operators :
                               IsOperatorLineOf(lines[HeaderAt(i) + k],
                                                results[i].operators[k])
                        /\ i < n =>
                               lines[HeaderAt(i) + Len(results[i].operators) + 1] = <<>>

C28_Witness ==
    /\ pc = "formatted"
    /\ Len(results) = 2
    /\ results[1].tags = <<TOP_VETERAN, TagDps>>
    /\ results[2].tags = <<TagDps, TOP_VETERAN>>
    /\ Len(results[1].operators) = 2
    /\ results[1].min_rarity = 9
    /\ results[2].min_rarity = 0

====
